---- MODULE Spec2Model ----
(***************************************************************************)
(* AuraAI front end: the tasks view, the meeting detail view and the       *)
(* session/routing layer, as state machines translated from the React      *)
(* sources.  Each view has its own specification (SpecTasks, SpecMeeting,  *)
(* SpecSession); the variables of the other views stay at their initial    *)
(* values under it.                                                        *)
(***************************************************************************)
EXTENDS Integers, Sequences, FiniteSets, TLC

VARIABLES
    \* ---- tasks view (TasksView.jsx) ----
    tv,          \* instance -> [tasks, lists, loading, filter]: the useState cells
    tvMounted,   \* the instance now mounted, 0 when the view is not on screen
    tvMounts,    \* how many instances were mounted so far
    tvFetch,     \* instance -> position of its fetchTasks() call
    board,       \* the remote board: the cards the backend returns
    workspaceId, \* settings.workspace_id at the backend ("" when not configured)
    requests,    \* endpoint -> number of requests issued so far
    tvLast,      \* history: the last run of toggles of one id, [id, before, n]
    tvToggled,   \* history: some toggle was applied since the start
    \* ---- meeting detail view (MeetingDetail.jsx) ----
    mdMounted,   \* the view is on screen
    mdLoading,   \* useState: loading
    mdMeeting,   \* useState: meeting ("null" or "loaded")
    mdItems,     \* useState: actionItems, the ids in display order
    mdLoad,      \* position of loadMeeting()
    mdConv,      \* the convertActionToTask() calls awaiting their response
    mdNotice,    \* the last alert()/confirm() shown
    mdConverted, \* history: the items removed after a confirmed conversion
    serverItems, \* the number of action items of the meeting at the backend
    mdOutcome,   \* history: how the last answered conversion call ended
    \* ---- session and routing (AuthContext.jsx, App, ProtectedRoute, pages) ----
    lsToken,     \* localStorage auraai_token ("none" when absent)
    lsUser,      \* localStorage auraai_user: the stored user's persona
    token,       \* AuthProvider useState: token
    user,        \* AuthProvider useState: user, by persona ("none" for null)
    isLoading,   \* AuthProvider useState: isLoading
    route,       \* the router's location
    requested,   \* history: the location the user last asked for
    authCalls,   \* the auth requests awaiting their response
    formLoading, \* useState loading of the mounted LoginPage or SignupPage
    navTimer,    \* a setTimeout(() => navigate("/app")) is pending
    lastSent,    \* history: the last request a view issued on mount
    appCrashed,  \* a render has thrown; React has unmounted the application
    \* ---- the adapters applied to one backend response ----
    adOp,        \* which adapter has run ("none" before)
    adIn,        \* the response, and the clock reading, it is applied to
    adOut,       \* what the adapter produced
    \* ---- meeting detail: the text sections of a loaded meeting ----
    transcriptText,     \* meeting.transcript_text: a string, or null
    minutesSummary,     \* meeting.minutesSummary
    transcriptExpanded, \* useState transcriptExpanded
    summaryExpanded,    \* useState summaryExpanded
    \* ---- products page at Trans2Actions: documents (ProductsPage.jsx) ----
    documents,   \* useState documents, as the set of document ids
    srvDocs,     \* the documents the backend holds
    uploading,   \* useState uploading
    msgs,        \* messagesByProduct.Trans2Actions, by kind of message
    upPc,        \* where handleFileUpload stands
    deletes,     \* the handleDeleteDocument calls under way
    loads,       \* the loadDocuments() calls of the effect awaiting their response
    dpChosen,    \* history: the file name chosen in the last step, if that was one
    \* ---- meeting detail: loadMeeting() by route id (MeetingDetail.jsx) ----
    ldId,        \* useParams().id
    ldCalls,     \* the ids of the loadMeeting() calls awaiting their response, in call order
    ldMeeting,   \* useState meeting: the id it was loaded for and its null fields
    ldItems,     \* useState actionItems
    ldLoading,   \* useState loading
    ldCrashed,   \* a render has thrown; React has unmounted the tree
    ldAllOk,     \* history: every response so far was ok and well-formed
    payloads,    \* meeting id -> the fields that are null or missing in its payload
    \* ---- products page: queries (ProductsPage.jsx) ----
    qProduct,    \* useParams().productName
    qInst,       \* the page instance now mounted, 0 when the page is not on screen
    qMounts,     \* how many page instances were mounted so far
    qMsgs,       \* useState messagesByProduct of the mounted instance
    qLoading,    \* useState loading of the mounted instance
    qFlight,     \* the query requests awaiting their response: [inst, product, q]
    qNext,       \* the number of the next query
    qDocCalls,   \* the loadDocuments() calls of the effect awaiting their response
    qSent,       \* history: query number -> the requests issued for it
    qLate,       \* history: a response arrived after the user had switched to another product
    \* ---- login and signup forms (LandingPage.jsx, part_002) ----
    fFields,     \* useState email, password (login) or formData (signup)
    fErrors,     \* useState errors, as the set of <<field, message>>
    fLast        \* history: the kind of the last step on the form

tvars == <<tv, tvMounted, tvMounts, tvFetch, board, workspaceId, requests,
           tvLast, tvToggled>>

mvars == <<mdMounted, mdLoading, mdMeeting, mdItems, mdLoad, mdConv, mdNotice,
           mdConverted, serverItems, mdOutcome>>

svars == <<lsToken, lsUser, token, user, isLoading, route, requested, authCalls,
           formLoading, navTimer, lastSent, appCrashed>>

avars == <<adOp, adIn, adOut>>

xvars == <<transcriptText, minutesSummary, transcriptExpanded, summaryExpanded>>

dvars == <<documents, srvDocs, uploading, msgs, upPc, deletes, loads, dpChosen>>

lvars == <<ldId, ldCalls, ldMeeting, ldItems, ldLoading, ldCrashed, ldAllOk, payloads>>

qvars == <<qProduct, qInst, qMounts, qMsgs, qLoading, qFlight, qNext, qDocCalls, qSent, qLate>>

fvars == <<fFields, fErrors, fLast>>

vars == <<tvars, mvars, svars, avars, xvars, dvars, lvars, qvars, fvars>>

\* What a view's actions leave alone: the other views.
otherThanTasks == <<mvars, svars, avars, xvars, dvars, lvars, qvars, fvars>>
otherThanMeeting == <<tvars, svars, avars, xvars, dvars, lvars, qvars, fvars>>
otherThanSession == <<tvars, mvars, avars, xvars, dvars, lvars, qvars, fvars>>
otherThanAdapters == <<tvars, mvars, svars, xvars, dvars, lvars, qvars, fvars>>
otherThanTexts == <<tvars, mvars, svars, avars, dvars, lvars, qvars, fvars>>
otherThanDocuments == <<tvars, mvars, svars, avars, xvars, lvars, qvars, fvars>>
otherThanDetail == <<tvars, mvars, svars, avars, xvars, dvars, qvars, fvars>>
otherThanQueries == <<tvars, mvars, svars, avars, xvars, dvars, lvars, fvars>>
otherThanForms == <<tvars, mvars, avars, xvars, dvars, lvars, qvars>>

\* ------------------------------------------------------------------ bounds
MaxCards == 2
MaxMounts == 2
MaxItems == 3
MaxPending == 2
MaxDueCards == 2
MaxDay == 2
MaxNameLen == 2
MaxParticipants == 2
MaxOver == 2
MaxSeed == 2
MaxDocs == 2
MaxMsgs == 2
MaxLoads == 2
MaxQueries == 2

ListIds == {"todo", "doing"}
Filters == {"all", "open", "done"}
Instances == 1..MaxMounts

\* ------------------------------------------------------------- pure helpers
\* A remote card, as the cards endpoint returns it.
Card(i, c, l) == [id |-> i, closed |-> c, list_id |-> l]

\* The boards the backend may hold: n cards with ids 1..n, in board order, each
\* open or closed and in one of two lists (the first card's list is named "todo").
Boards ==
    UNION {
        {[k \in 1..n |-> Card(k, cl[k], li[k])] :
            cl \in [1..n -> BOOLEAN],
            li \in {l \in [1..n -> ListIds] : n = 0 \/ l[1] = "todo"}}
        : n \in 0..MaxCards }

\* ------------------------------------------------------- tasks view: pure
\* Mutant: the status ignores the card's closed flag.
CardToTaskAlwaysOpen(card) ==
    [id |-> card.id, status |-> "open", closed |-> card.closed,
     listId |-> card.list_id]

\* TasksView.jsx 121-140: one card as a task.
CardToTask(card) ==
    [id |-> card.id,
     status |-> IF card.closed THEN "done" ELSE "open",
     closed |-> card.closed,
     listId |-> card.list_id]

\* Mutant: archived (closed) cards are left out of the task list.
CardsToTasksSkipClosed(cards) ==
    IF \E k \in 1..Len(cards) : cards[k].closed
    THEN SubSeq([k \in 1..Len(cards) |-> CardToTask(cards[k])], 1, Len(cards) - 1)
    ELSE [k \in 1..Len(cards) |-> CardToTask(cards[k])]

\* TasksView.jsx 93-141: data.cards.map(...)
CardsToTasks(cards) == [k \in 1..Len(cards) |-> CardToTask(cards[k])]

RECURSIVE GroupFrom(_, _, _)
\* TasksView.jsx 79-90: the Map keyed by list_id, in first-appearance order.
GroupFrom(cards, k, acc) ==
    IF k > Len(cards) THEN acc
    ELSE LET c == cards[k]
             has == \E j \in 1..Len(acc) : acc[j].id = c.list_id
         IN IF has
            THEN GroupFrom(cards, k + 1,
                    [j \in 1..Len(acc) |->
                        IF acc[j].id = c.list_id
                        THEN [acc[j] EXCEPT !.cards = Append(@, c)]
                        ELSE acc[j]])
            ELSE GroupFrom(cards, k + 1,
                    Append(acc, [id |-> c.list_id, cards |-> <<c>>]))

GroupByList(cards) == GroupFrom(cards, 1, <<>>)

\* TasksView.jsx 17-21: the predicate of tasks.filter(...)
FilterKeeps(f, task) ==
    IF f = "open" THEN task.status = "open"
    ELSE IF f = "done" THEN task.status = "done"
    ELSE TRUE

RECURSIVE FilterFrom(_, _, _)
\* Array.prototype.filter with that predicate: the kept tasks, in order.
FilterFrom(tasks, f, k) ==
    IF k > Len(tasks) THEN <<>>
    ELSE IF FilterKeeps(f, tasks[k])
         THEN <<tasks[k]>> \o FilterFrom(tasks, f, k + 1)
         ELSE FilterFrom(tasks, f, k + 1)

\* TasksView.jsx 17-21: filteredTasks
FilteredTasks(tasks, f) == FilterFrom(tasks, f, 1)

\* Mutant: a three-state cycle instead of a flip.
FlipStatusThreeWay(status) ==
    IF status = "open" THEN "done"
    ELSE IF status = "done" THEN "archived" ELSE "open"

\* TasksView.jsx 165: the flipped status
FlipStatus(status) == IF status = "done" THEN "open" ELSE "done"

\* Mutant: the toggle marks the task done instead of flipping it.
ToggleTaskStatusMarkDone(tasks, id) ==
    [k \in 1..Len(tasks) |->
        IF tasks[k].id = id THEN [tasks[k] EXCEPT !.status = "done"] ELSE tasks[k]]

\* Mutant: a toggle to open also reopens the card (clears its closed flag).
ToggleTaskStatusReopens(tasks, id) ==
    [k \in 1..Len(tasks) |->
        IF tasks[k].id = id
        THEN [tasks[k] EXCEPT !.status = FlipStatus(@),
                              !.closed = IF tasks[k].status = "done" THEN FALSE ELSE @]
        ELSE tasks[k]]

\* TasksView.jsx 158-167: the list toggleTaskStatus(id) stores.
ToggleTaskStatus(tasks, id) ==
    IF ~ \E k \in 1..Len(tasks) : tasks[k].id = id
    THEN tasks
    ELSE [k \in 1..Len(tasks) |->
            IF tasks[k].id = id
            THEN [tasks[k] EXCEPT !.status = FlipStatus(@)]
            ELSE tasks[k]]

\* ----------------------------------------------------- tasks view: state
\* TasksView.jsx 12-15: the state of a fresh instance.
FreshView == [tasks |-> <<>>, lists |-> <<>>, loading |-> FALSE, filter |-> "all"]

\* No toggle since the instance was mounted.
NoToggle == [id |-> 0, before |-> <<>>, n |-> 0]

FetchPcs == {"none", "awaitSettings", "awaitCards", "loaded", "noCards",
             "settingsNotOk", "noBoard", "cardsNotOk", "caught"}

InitTasks ==
    /\ tv = [i \in Instances |-> FreshView]
    /\ tvMounted = 0
    /\ tvMounts = 0
    /\ tvFetch = [i \in Instances |-> "none"]
    /\ board \in Boards
    /\ workspaceId \in {"", "b1"}
    /\ requests = [settings |-> 0, cards |-> 0]
    /\ tvLast = NoToggle
    /\ tvToggled = FALSE

\* No alert or confirm shown yet; no conversion call answered yet.
NoNotice == [kind |-> "none", text |-> "none"]
NoOutcome == [channel |-> "none", reason |-> "none"]

\* The other views' variables while the tasks view is the one under study.
IdleMeeting ==
    /\ mdMounted = FALSE
    /\ mdLoading = TRUE
    /\ mdMeeting = "null"
    /\ mdItems = <<>>
    /\ mdLoad = "none"
    /\ mdConv = {}
    /\ mdNotice = NoNotice
    /\ mdConverted = {}
    /\ serverItems = 0
    /\ mdOutcome = NoOutcome

\* No view has issued a request yet.
NoRequest == [path |-> "none", bearer |-> "none", session |-> "none"]

\* A signed-out session at the landing page, no request outstanding.
IdleSession ==
    /\ lsToken = "none" /\ lsUser = "none"
    /\ token = "none" /\ user = "none"
    /\ isLoading = FALSE
    /\ route = "/"
    /\ requested = "/"
    /\ authCalls = {}
    /\ formLoading = FALSE
    /\ navTimer = FALSE
    /\ lastSent = NoRequest
    /\ appCrashed = FALSE

\* No adapter under study.
IdleAdapters ==
    /\ adOp = "none"
    /\ adIn = <<>>
    /\ adOut = <<>>

\* No meeting text on display.
IdleTexts ==
    /\ transcriptText = [null |-> TRUE, chars |-> <<>>]
    /\ minutesSummary = <<>>
    /\ transcriptExpanded = FALSE
    /\ summaryExpanded = FALSE

\* No file chosen in the last step.
NoFile == <<>>

\* The products page not in use.
IdleDocuments ==
    /\ documents = {}
    /\ srvDocs = {}
    /\ uploading = FALSE
    /\ msgs = <<>>
    /\ upPc = "idle"
    /\ deletes = {}
    /\ loads = 0
    /\ dpChosen = NoFile

\* MeetingDetail.jsx 11, 31: the meetings a detail location may name.
MeetingIds == {"A", "B"}

\* MeetingDetail.jsx 14: useState(null)
NoMeeting == [id |-> "none", nulls |-> {}]

\* The meeting detail view's loading not under study.
IdleDetail ==
    /\ ldId = "none"
    /\ ldCalls = <<>>
    /\ ldMeeting = NoMeeting
    /\ ldItems = <<>>
    /\ ldLoading = TRUE
    /\ ldCrashed = FALSE
    /\ ldAllOk = TRUE
    /\ payloads = [m \in MeetingIds |-> {}]

\* ProductsPage.jsx 35-39, 48: the keys of messagesByProduct, and a product name
\* that is none of them (any other /products/:productName).
ProductNames == {"Trans2Actions", "User-Load", "AdminPerspective", "Other"}

\* ProductsPage.jsx 35-39, 48: no message under any product.
NoMessages == [p \in ProductNames |-> <<>>]

\* The products page's queries not under study.
IdleQueries ==
    /\ qProduct = "none"
    /\ qInst = 0
    /\ qMounts = 0
    /\ qMsgs = NoMessages
    /\ qLoading = FALSE
    /\ qFlight = {}
    /\ qNext = 1
    /\ qDocCalls = 0
    /\ qSent = [q \in 1..MaxQueries |-> 0]
    /\ qLate = FALSE

\* LandingPage.jsx 282-284 and part_002 10-11: the fields of a fresh login form.
EmptyLogin == [email |-> <<>>, password |-> <<>>]

\* No auth form in use.
IdleForms ==
    /\ fFields = EmptyLogin
    /\ fErrors = {}
    /\ fLast = "none"

\* TasksView.jsx 23-36: mount; the effect runs fetchTasks() up to its first await.
MountTasksView ==
    /\ tvMounted = 0
    /\ tvMounts < MaxMounts
    /\ LET i == tvMounts + 1 IN
        /\ tvMounts' = i
        /\ tvMounted' = i
        /\ tv' = [tv EXCEPT ![i] = [FreshView EXCEPT !.loading = TRUE]]
        /\ tvFetch' = [tvFetch EXCEPT ![i] = "awaitSettings"]
    /\ requests' = [requests EXCEPT !.settings = @ + 1]
    /\ tvLast' = NoToggle
    /\ UNCHANGED <<board, workspaceId, tvToggled>>
    /\ UNCHANGED otherThanTasks

FetchPending(i) == tvFetch[i] \in {"awaitSettings", "awaitCards"}

\* Dashboard routes (part_003 19-25): navigation away unmounts the view.  React
\* drops the state of the unmounted instance; the cells whose setters a pending
\* fetchTasks() continuation still holds (tasks, lists, loading) stay reachable.
UnmountTasksView ==
    /\ tvMounted # 0
    /\ tvMounted' = 0
    /\ tv' = [tv EXCEPT ![tvMounted] =
                IF FetchPending(tvMounted) THEN [@ EXCEPT !.filter = "all"]
                ELSE FreshView]
    /\ tvLast' = NoToggle
    /\ UNCHANGED <<tvMounts, tvFetch, board, workspaceId, requests, tvToggled>>
    /\ UNCHANGED otherThanTasks

\* Mutant: an early return that skips the finally block.
FinishFetchKeepLoading(i, pc) ==
    /\ tv' = tv
    /\ tvFetch' = [tvFetch EXCEPT ![i] = pc]

\* TasksView.jsx 153-155: finally { setLoading(false) }
FinishFetch(i, pc) ==
    /\ tv' = [tv EXCEPT ![i].loading = FALSE]
    /\ tvFetch' = [tvFetch EXCEPT ![i] = pc]

\* TasksView.jsx 38-41: the settings response is not ok.
SettingsNotOk(i) ==
    /\ tvFetch[i] = "awaitSettings"
    /\ FinishFetch(i, "settingsNotOk")
    /\ UNCHANGED <<tvMounted, tvMounts, board, workspaceId, requests,
                   tvLast, tvToggled>>
    /\ UNCHANGED otherThanTasks

\* TasksView.jsx 43-51: ok, but no board id configured.
SettingsNoBoard(i) ==
    /\ tvFetch[i] = "awaitSettings"
    /\ workspaceId = ""
    /\ FinishFetch(i, "noBoard")
    /\ UNCHANGED <<tvMounted, tvMounts, board, workspaceId, requests,
                   tvLast, tvToggled>>
    /\ UNCHANGED otherThanTasks

\* Mutant: the cards request is issued without the test of the board id.
SettingsOkUnchecked(i) ==
    /\ tvFetch[i] = "awaitSettings"
    /\ tvFetch' = [tvFetch EXCEPT ![i] = "awaitCards"]
    /\ requests' = [requests EXCEPT !.cards = @ + 1]
    /\ UNCHANGED <<tv, tvMounted, tvMounts, board, workspaceId, tvLast, tvToggled>>
    /\ UNCHANGED otherThanTasks

\* TasksView.jsx 43-58: ok with a board id; the cards request is issued.
SettingsOk(i) ==
    /\ tvFetch[i] = "awaitSettings"
    /\ workspaceId # ""
    /\ tvFetch' = [tvFetch EXCEPT ![i] = "awaitCards"]
    /\ requests' = [requests EXCEPT !.cards = @ + 1]
    /\ UNCHANGED <<tv, tvMounted, tvMounts, board, workspaceId, tvLast, tvToggled>>
    /\ UNCHANGED otherThanTasks

\* TasksView.jsx 151-155: fetch() or json() threw at either await.
FetchThrows(i) ==
    /\ tvFetch[i] \in {"awaitSettings", "awaitCards"}
    /\ FinishFetch(i, "caught")
    /\ UNCHANGED <<tvMounted, tvMounts, board, workspaceId, requests,
                   tvLast, tvToggled>>
    /\ UNCHANGED otherThanTasks

\* TasksView.jsx 60-72: the cards response is not ok.
CardsNotOk(i) ==
    /\ tvFetch[i] = "awaitCards"
    /\ FinishFetch(i, "cardsNotOk")
    /\ UNCHANGED <<tvMounted, tvMounts, board, workspaceId, requests,
                   tvLast, tvToggled>>
    /\ UNCHANGED otherThanTasks

\* TasksView.jsx 74-144: ok with a non-empty cards array.
CardsLoaded(i) ==
    /\ tvFetch[i] = "awaitCards"
    /\ Len(board) > 0
    /\ tv' = [tv EXCEPT ![i] = [@ EXCEPT !.lists = GroupByList(board),
                                         !.tasks = CardsToTasks(board),
                                         !.loading = FALSE]]
    /\ tvFetch' = [tvFetch EXCEPT ![i] = "loaded"]
    /\ UNCHANGED <<tvMounted, tvMounts, board, workspaceId, requests,
                   tvLast, tvToggled>>
    /\ UNCHANGED otherThanTasks

\* TasksView.jsx 145-150: ok, but data.cards is missing or empty.
CardsEmpty(i) ==
    /\ tvFetch[i] = "awaitCards"
    /\ FinishFetch(i, "noCards")
    /\ UNCHANGED <<tvMounted, tvMounts, board, workspaceId, requests,
                   tvLast, tvToggled>>
    /\ UNCHANGED otherThanTasks

\* TasksView.jsx 203-205: a click on a rendered card's checkbox.
ClickToggle(id) ==
    /\ tvMounted # 0
    /\ ~ tv[tvMounted].loading
    /\ \E k \in 1..Len(FilteredTasks(tv[tvMounted].tasks, tv[tvMounted].filter)) :
          FilteredTasks(tv[tvMounted].tasks, tv[tvMounted].filter)[k].id = id
    /\ tv' = [tv EXCEPT ![tvMounted].tasks = ToggleTaskStatus(@, id)]
    /\ tvLast' = IF tvLast.id = id /\ tvLast.n = 1
                 THEN [tvLast EXCEPT !.n = 2]
                 ELSE [id |-> id, before |-> tv[tvMounted].tasks, n |-> 1]
    /\ tvToggled' = TRUE
    /\ UNCHANGED <<tvMounted, tvMounts, tvFetch, board, workspaceId, requests>>
    /\ UNCHANGED otherThanTasks

\* Mutant: the filter button stores the filtered list as the task list.
SetFilterInPlace(f) ==
    /\ tvMounted # 0
    /\ tv[tvMounted].filter # f
    /\ tv' = [tv EXCEPT ![tvMounted] =
                [@ EXCEPT !.filter = f, !.tasks = FilteredTasks(@, f)]]
    /\ UNCHANGED <<tvMounted, tvMounts, tvFetch, board, workspaceId, requests,
                   tvLast, tvToggled>>
    /\ UNCHANGED otherThanTasks

\* TasksView.jsx 185-193: a click on a filter button.
SetFilter(f) ==
    /\ tvMounted # 0
    /\ tv[tvMounted].filter # f
    /\ tv' = [tv EXCEPT ![tvMounted].filter = f]
    /\ UNCHANGED <<tvMounted, tvMounts, tvFetch, board, workspaceId, requests,
                   tvLast, tvToggled>>
    /\ UNCHANGED otherThanTasks

NextTasks ==
    \/ MountTasksView
    \/ UnmountTasksView
    \/ \E i \in Instances : SettingsNotOk(i)
    \/ \E i \in Instances : SettingsNoBoard(i)
    \/ \E i \in Instances : SettingsOk(i)
    \/ \E i \in Instances : FetchThrows(i)
    \/ \E i \in Instances : CardsNotOk(i)
    \/ \E i \in Instances : CardsLoaded(i)
    \/ \E i \in Instances : CardsEmpty(i)
    \/ \E id \in 1..MaxCards : ClickToggle(id)
    \/ \E f \in Filters : SetFilter(f)

\* The start with only this part of the application in use.
TasksOnly == InitTasks /\ IdleMeeting /\ IdleSession /\ IdleAdapters /\ IdleTexts /\ IdleDocuments /\ IdleDetail /\ IdleQueries /\ IdleForms

SpecTasks ==
    /\ TasksOnly
    /\ [][NextTasks]_vars

\* ------------------------------------------------------ tasks view: claims
Mounted == tvMounted # 0
CurTasks == tv[tvMounted].tasks
FailedPcs == {"settingsNotOk", "noBoard", "cardsNotOk", "caught"}

\* r is t with some elements left out, the others in their order.
IsOrderedSubSeq(r, t) ==
    \E m \in [1..Len(r) -> 1..Len(t)] :
        /\ \A a, b \in 1..Len(r) : a < b => m[a] < m[b]
        /\ \A a \in 1..Len(r) : r[a] = t[m[a]]

C6_ToggleTwiceRestores ==
    (Mounted /\ tvLast.n > 0) =>
        /\ Len(CurTasks) = Len(tvLast.before)
        /\ \A k \in 1..Len(CurTasks) :
              CurTasks[k].id # tvLast.id => CurTasks[k] = tvLast.before[k]
        /\ tvLast.n = 2 =>
              \A k \in 1..Len(CurTasks) :
                  CurTasks[k].status = tvLast.before[k].status

C6_Witness ==
    /\ Mounted
    /\ tvLast.n = 2
    /\ Len(CurTasks) >= 2
    /\ CurTasks = tvLast.before

\* C7: filtering is idempotent for every filter, its result is an order-preserving
\* sub-list of the tasks, and a filter click leaves the task list as it was.
C7_FilterInv ==
    \A i \in Instances : \A p \in Filters :
        LET t == tv[i].tasks
            r == FilteredTasks(t, p)
        IN /\ FilteredTasks(r, p) = r
           /\ IsOrderedSubSeq(r, t)
           /\ \A k \in 1..Len(t) :
                 FilterKeeps(p, t[k]) => \E j \in 1..Len(r) : r[j] = t[k]

C7_FilterPure ==
    /\ []C7_FilterInv
    /\ [][\A i \in Instances :
             tv'[i].filter # tv[i].filter /\ tvMounted' = tvMounted
                => tv'[i].tasks = tv[i].tasks]_vars

C7_Witness ==
    /\ Mounted
    /\ tv[tvMounted].filter = "open"
    /\ Len(FilteredTasks(CurTasks, "open")) > 0
    /\ Len(FilteredTasks(CurTasks, "open")) < Len(CurTasks)

\* C8: every task's status is open or done, and a task's status changes only by a
\* toggle of that task, from open to done or from done to open.
C8_StatusDomain ==
    \A i \in Instances : \A k \in 1..Len(tv[i].tasks) :
        tv[i].tasks[k].status \in {"open", "done"}

C8_StatusMachine ==
    /\ []C8_StatusDomain
    /\ [][\A i \in Instances :
            \A k \in 1..Len(tv[i].tasks) :
                (k <= Len(tv'[i].tasks)
                    /\ tv'[i].tasks[k].status # tv[i].tasks[k].status)
                => /\ tvMounted = i
                   /\ tv'[i].tasks[k].id = tv[i].tasks[k].id
                   /\ <<tv[i].tasks[k].status, tv'[i].tasks[k].status>>
                        \in {<<"open", "done">>, <<"done", "open">>}
                   /\ tvLast'.id = tv[i].tasks[k].id
                   /\ tvLast' # tvLast]_vars

C8_Witness ==
    /\ Mounted
    /\ tvLast.n = 1
    /\ \E k \in 1..Len(CurTasks) :
          /\ CurTasks[k].id = tvLast.id
          /\ CurTasks[k].closed
          /\ CurTasks[k].status = "open"

\* C9: a toggle issues no request, a newly mounted view starts from an empty task
\* list, and the list a fetch stores has every status derived from the card's
\* closed flag, whatever was toggled before.
C9_ToggleIsLocal ==
    [][/\ (tvLast' # tvLast /\ tvLast'.id # 0) => requests' = requests
       /\ \A i \in Instances :
            /\ (tvFetch[i] = "none" /\ tvFetch'[i] # "none")
                  => tv'[i].tasks = <<>>
            /\ (tvFetch[i] # "loaded" /\ tvFetch'[i] = "loaded")
                  => /\ Len(tv'[i].tasks) = Len(board)
                     /\ \A k \in 1..Len(board) :
                          tv'[i].tasks[k].status =
                              IF board[k].closed THEN "done" ELSE "open"]_vars

C9_Witness ==
    /\ tvToggled
    /\ tvMounted = 2
    /\ tvLast = NoToggle
    /\ tvFetch[2] = "loaded"
    /\ \E k \in 1..Len(board) : board[k].closed
    /\ \A k \in 1..Len(board) :
          tv[2].tasks[k].status = IF board[k].closed THEN "done" ELSE "open"

\* C11: the list a fetch stores has exactly one task per card of the response, in
\* card order and with the card's id, with status done for a closed card and open
\* for any other.
C11_OneTaskPerCard ==
    [][\A i \in Instances :
          (tvFetch[i] = "awaitCards" /\ tvFetch'[i] = "loaded")
            => /\ Len(tv'[i].tasks) = Len(board)
               /\ \A k \in 1..Len(board) :
                    /\ tv'[i].tasks[k].id = board[k].id
                    /\ tv'[i].tasks[k].status = "done" <=> board[k].closed
                    /\ tv'[i].tasks[k].status = "open" <=> ~ board[k].closed]_vars

C11_Witness ==
    /\ Mounted
    /\ tvFetch[tvMounted] = "loaded"
    /\ ~ tvToggled
    /\ Len(board) = MaxCards
    /\ \E a, b \in 1..Len(board) : board[a].closed /\ ~ board[b].closed
    /\ \A k \in 1..Len(board) : CurTasks[k].id = board[k].id

\* C10: a fetch that ends without success (settings not ok, no board id, cards
\* not ok, or a thrown error) leaves tasks and lists as they were and resets
\* the loading flag.
C10_FailedFetchKeepsList ==
    [][\A i \in Instances :
          (tvFetch[i] \notin FailedPcs /\ tvFetch'[i] \in FailedPcs)
            => /\ tv'[i].tasks = tv[i].tasks
               /\ tv'[i].lists = tv[i].lists
               /\ tv'[i].loading = FALSE]_vars

C10_Witness ==
    /\ Mounted
    /\ tvFetch[tvMounted] = "cardsNotOk"
    /\ requests.cards > 0
    /\ ~ tv[tvMounted].loading
    /\ CurTasks = <<>>

\* =================================================== meeting detail view
\* The tasks view's variables while the meeting detail view is under study.
IdleTasks ==
    /\ tv = [i \in Instances |-> FreshView]
    /\ tvMounted = 0
    /\ tvMounts = 0
    /\ tvFetch = [i \in Instances |-> "none"]
    /\ board = <<>>
    /\ workspaceId = ""
    /\ requests = [settings |-> 0, cards |-> 0]
    /\ tvLast = NoToggle
    /\ tvToggled = FALSE

RECURSIVE WithoutFrom(_, _, _)
\* MeetingDetail.jsx 116: items.filter((ai) => ai.id !== id), from index k on.
WithoutFrom(items, id, k) ==
    IF k > Len(items) THEN <<>>
    ELSE IF items[k] # id THEN <<items[k]>> \o WithoutFrom(items, id, k + 1)
         ELSE WithoutFrom(items, id, k + 1)

\* MeetingDetail.jsx 116: the list without the converted item.
WithoutItem(items, id) == WithoutFrom(items, id, 1)

\* MeetingDetail.jsx 46-51: the action items of the loaded meeting, action-1..n.
TransformedItems(n) == [k \in 1..n |-> k]

\* MeetingDetail.jsx 14-26: mounted; the effect has called loadMeeting().
InitMeeting ==
    /\ mdMounted = TRUE
    /\ mdLoading = TRUE
    /\ mdMeeting = "null"
    /\ mdItems = <<>>
    /\ mdLoad = "awaitMeeting"
    /\ mdConv = {}
    /\ mdNotice = NoNotice
    /\ mdConverted = {}
    /\ serverItems \in 0..MaxItems
    /\ mdOutcome = NoOutcome

\* MeetingDetail.jsx 36-54, 62-64: the meeting arrived.
LoadMeetingOk ==
    /\ mdLoad = "awaitMeeting"
    /\ mdLoad' = "done"
    /\ mdMeeting' = "loaded"
    /\ mdItems' = TransformedItems(serverItems)
    /\ mdLoading' = FALSE
    /\ UNCHANGED <<mdMounted, mdConv, mdNotice, mdConverted, serverItems, mdOutcome>>
    /\ UNCHANGED otherThanMeeting

\* MeetingDetail.jsx 55-64: not found, access denied, or a thrown error.
LoadMeetingFails ==
    /\ mdLoad = "awaitMeeting"
    /\ mdLoad' = "done"
    /\ mdMeeting' = "null"
    /\ mdLoading' = FALSE
    /\ UNCHANGED <<mdMounted, mdItems, mdConv, mdNotice, mdConverted, serverItems, mdOutcome>>
    /\ UNCHANGED otherThanMeeting

\* MeetingDetail.jsx 89-105, 258: a click on "Convert to task"; the handler closes
\* over the actionItems of the render that created it.
ClickConvert(item) ==
    /\ mdMounted /\ ~ mdLoading /\ mdMeeting = "loaded"
    /\ \E k \in 1..Len(mdItems) : mdItems[k] = item
    /\ Cardinality(mdConv) < MaxPending
    /\ [item |-> item, closure |-> mdItems] \notin mdConv
    /\ mdConv' = mdConv \cup {[item |-> item, closure |-> mdItems]}
    /\ UNCHANGED <<mdMounted, mdLoading, mdMeeting, mdItems, mdLoad, mdNotice,
                   mdConverted, serverItems, mdOutcome>>
    /\ UNCHANGED otherThanMeeting

\* The reasons a failed conversion may carry: of the permission category (the
\* text mentions permission or unauthorized), another, or none at all.
FailureReasons == {"permission", "other", "absent"}

\* MeetingDetail.jsx 112-117: ok and result.success.
ConvertSucceeds(c) ==
    /\ c \in mdConv
    /\ mdConv' = mdConv \ {c}
    /\ mdItems' = WithoutItem(c.closure, c.item)
    /\ mdNotice' = [kind |-> "converted", text |-> "none"]
    /\ mdConverted' = mdConverted \cup {c.item}
    /\ mdOutcome' = [channel |-> "success", reason |-> "none"]
    /\ UNCHANGED <<mdMounted, mdLoading, mdMeeting, mdLoad, serverItems>>
    /\ UNCHANGED otherThanMeeting

\* MeetingDetail.jsx 119-133: the dialog for an unsuccessful result, whose reason
\* is result.error or, without one, the default text.
RejectedNotice(reason) ==
    IF reason = "permission"
    THEN [kind |-> "reconnectPrompt", text |-> "permission"]
    ELSE [kind |-> "failed", text |-> IF reason = "absent" THEN "default" ELSE reason]

\* MeetingDetail.jsx 118-133: ok, but result.success is false; for a reason of
\* the permission category the user is asked whether to open Settings.
ConvertRejected(c, reason, openSettings) ==
    /\ c \in mdConv
    /\ mdConv' = mdConv \ {c}
    /\ mdNotice' = RejectedNotice(reason)
    /\ mdMounted' = IF mdNotice'.kind = "reconnectPrompt" /\ openSettings
                    THEN FALSE ELSE mdMounted
    /\ mdOutcome' = [channel |-> "unsuccessful", reason |-> reason]
    /\ UNCHANGED <<mdLoading, mdMeeting, mdItems, mdLoad, mdConverted, serverItems>>
    /\ UNCHANGED otherThanMeeting

\* MeetingDetail.jsx 107-110, 134-137: a response that is not ok, with the reason
\* of its body's detail (without one, the status line); the Error thrown is
\* caught and reported by the plain alert.
ConvertNotOk(c, reason) ==
    /\ c \in mdConv
    /\ mdConv' = mdConv \ {c}
    /\ mdNotice' = [kind |-> "failed",
                    text |-> IF reason = "absent" THEN "status" ELSE reason]
    /\ mdOutcome' = [channel |-> "notOk", reason |-> reason]
    /\ UNCHANGED <<mdMounted, mdLoading, mdMeeting, mdItems, mdLoad, mdConverted,
                   serverItems>>
    /\ UNCHANGED otherThanMeeting

\* MeetingDetail.jsx 94, 112, 134-137: fetch() or json() threw.
ConvertThrows(c) ==
    /\ c \in mdConv
    /\ mdConv' = mdConv \ {c}
    /\ mdNotice' = [kind |-> "failed", text |-> "thrown"]
    /\ mdOutcome' = [channel |-> "threw", reason |-> "thrown"]
    /\ UNCHANGED <<mdMounted, mdLoading, mdMeeting, mdItems, mdLoad, mdConverted,
                   serverItems>>
    /\ UNCHANGED otherThanMeeting

NextMeeting ==
    \/ LoadMeetingOk
    \/ LoadMeetingFails
    \/ \E item \in 1..MaxItems : ClickConvert(item)
    \/ \E c \in mdConv : ConvertSucceeds(c)
    \/ \E c \in mdConv : \E r \in FailureReasons, o \in BOOLEAN : ConvertRejected(c, r, o)
    \/ \E c \in mdConv : \E r \in FailureReasons : ConvertNotOk(c, r)
    \/ \E c \in mdConv : ConvertThrows(c)

\* The start with only this part of the application in use.
MeetingOnly == InitMeeting /\ IdleTasks /\ IdleSession /\ IdleAdapters /\ IdleTexts /\ IdleDocuments /\ IdleDetail /\ IdleQueries /\ IdleForms

SpecMeeting ==
    /\ MeetingOnly
    /\ [][NextMeeting]_vars

\* C1: an item removed after a confirmed conversion is never again in the
\* action-item list.
C1_ConvertedStaysRemoved ==
    \A k \in 1..Len(mdItems) : mdItems[k] \notin mdConverted

\* The conversion call answered in this step, if there is one.
AnsweredNow(c) == c \in mdConv /\ mdConv' = mdConv \ {c}

\* C17: when a conversion is confirmed, exactly the converted item leaves the
\* action-item list, the others staying in order; when it fails (a response that
\* is not ok, an unsuccessful result, or a thrown error) the list stays as it was
\* and the reason of the failure is shown.
C17_ConversionOutcome ==
    [][\A c \in mdConv : AnsweredNow(c) =>
          IF mdOutcome'.channel = "success"
          THEN mdItems' = WithoutItem(mdItems, c.item)
          ELSE /\ mdItems' = mdItems
               /\ mdNotice'.kind \in {"failed", "reconnectPrompt"}
               /\ mdNotice'.text =
                     IF mdOutcome'.reason # "absent" THEN mdOutcome'.reason
                     ELSE IF mdOutcome'.channel = "notOk" THEN "status" ELSE "default"]_vars

\* C18: a conversion failure whose reason is of the permission category ends in
\* the prompt that offers Settings, never in the plain failure alert, whether it
\* came as a response that is not ok or as an unsuccessful result.
C18_PermissionPrompts ==
    mdOutcome.reason = "permission" => mdNotice.kind = "reconnectPrompt"

\* ================================================== session and routing
Personas == {"employee", "admin"}
AdminRoute == "/products/AdminPerspective"
DefaultProductRoute == "/products/Trans2Actions"
AuthPages == {"/login", "/signup"}
DashboardRoutes == {"/app/tasks", "/app/meetings", "/app/settings"}
Routes == {"/", AdminRoute, DefaultProductRoute} \cup AuthPages \cup DashboardRoutes

\* The access token the backend issues to the account of persona p.
TokenOf(p) == IF p = "admin" THEN "tokenAdmin" ELSE "tokenEmployee"
\* The user GET /auth/me returns for a token.
AccountOf(t) == IF t = "tokenAdmin" THEN "admin" ELSE "employee"

\* ProductsPage.jsx 50-53: <Navigate to="/products/Trans2Actions" replace />
ProductsRedirects(r, u) == r = AdminRoute /\ u = "employee"

\* App (part_000 666): both product locations are rendered by the one route
\* element of /products/:productName, which keeps its ProductsPage instance when
\* only the parameter changes.
ProductRoutes == {AdminRoute, DefaultProductRoute}

\* ProductsPage.jsx 30-55, 79: the early return of 50-53 stands between the
\* hooks of lines 32-43 and those of lines 55 and 79.  An instance that has run
\* all its hooks throws in the render that returns early ("Rendered fewer hooks
\* than expected"); a fresh instance that returns early is navigated by
\* <Navigate> and throws in its next render, which runs more hooks than the
\* previous one.  No error boundary is rendered, so React unmounts the tree.
HooksOrderBroken(r, u) == ProductsRedirects(r, u)

\* Where the early return of the render at r leaves the location: the instance
\* already on screen throws before <Navigate> is rendered; a fresh instance is
\* navigated first.
RedirectedFrom(r) == IF route \in ProductRoutes THEN r ELSE DefaultProductRoute

\* Mutant: the dashboard routes are rendered without ProtectedRoute.
ResolveUnprotected(r, u, loading) ==
    IF ProductsRedirects(r, u) THEN RedirectedFrom(r)
    ELSE IF r \in AuthPages /\ ~ loading /\ u # "none" THEN "/app/tasks"
    ELSE r

\* The location after the redirects the rendered route performs:
\* ProductsPage.jsx 50-53, ProtectedRoute (MeetingDetail.jsx 487-501; "/app" shows
\* the tasks view), LoginPage (LandingPage.jsx 289-294), SignupPage (part_002 16-21).
Resolve(r, u, loading) ==
    IF ProductsRedirects(r, u) THEN RedirectedFrom(r)
    ELSE IF r \in DashboardRoutes /\ ~ loading /\ u = "none" THEN "/login"
    ELSE IF r \in AuthPages /\ ~ loading /\ u # "none" THEN "/app/tasks"
    ELSE r

\* ProductsPage.jsx 45-53, 377-553: the AdminPerspective page is rendered.
AdminPerspectiveShown ==
    route = AdminRoute /\ ~ ProductsRedirects(route, user) /\ ~ appCrashed

\* ProtectedRoute (MeetingDetail.jsx 487-501): the dashboard is rendered.
DashboardShown ==
    route \in DashboardRoutes /\ ~ isLoading /\ user # "none" /\ ~ appCrashed

\* DashboardNav.jsx 77, 185-196: the transcript upload control is rendered.
UploadControlShown == DashboardShown /\ route = "/app/meetings" /\ user = "admin"

\* Settings (part_008 310-348): the board id select or input is rendered.
BoardSelectionShown == DashboardShown /\ route = "/app/settings"

\* The view that loads data when it mounts and is rendered at location r:
\* the documents of ProductsPage.jsx 84-88 at Trans2Actions, and the dashboard
\* views inside ProtectedRoute (TasksView.jsx 23-25, DashboardNav.jsx 79-81,
\* part_008 28-32).
FetchingView(r, u, loading) ==
    IF r = DefaultProductRoute THEN r
    ELSE IF r \in DashboardRoutes /\ ~ loading /\ u # "none" THEN r
    ELSE "none"

\* AuthContext.jsx 131-133: getAuthHeader() with the token of the render.
GetAuthHeader(tok) == tok

\* The request of the view this step mounts, if it mounts one: it carries the
\* header of the render that mounted it.  A render that throws is not
\* committed and runs no effect.
SentOnMount ==
    IF /\ ~ appCrashed'
       /\ FetchingView(route', user', isLoading')
             \notin {"none", FetchingView(route, user, isLoading)}
    THEN [path |-> route', bearer |-> GetAuthHeader(token'), session |-> lsToken']
    ELSE lastSent

\* AuthContext.jsx 10-12 and the first render, before any effect has run.
InitSession ==
    /\ \E p \in Personas \cup {"none"} :
          /\ lsUser = p
          /\ lsToken = IF p = "none" THEN "none" ELSE TokenOf(p)
    /\ token = "none"
    /\ user = "none"
    /\ isLoading = TRUE
    /\ route \in Routes
    /\ requested = route
    /\ authCalls = {}
    /\ formLoading = FALSE
    /\ navTimer = FALSE
    /\ lastSent = NoRequest
    /\ appCrashed = FALSE

\* The page's own state is lost when the location leaves the page.
FormLoadingAt(newRoute) == IF newRoute = route THEN formLoading ELSE FALSE

\* Once a render has thrown nothing is on screen any more; the model follows the
\* application no further.
\*
\* The effects of the first render, children first: the page rendered at the
\* start runs its mount effect with the header of that render; then
\* AuthContext.jsx 14-26: the mount effect restores the stored session.
AuthMountEffect ==
    /\ ~ appCrashed
    /\ isLoading
    /\ isLoading' = FALSE
    /\ IF lsToken # "none" /\ lsUser # "none"
       THEN /\ token' = lsToken
            /\ user' = lsUser
            /\ authCalls' = authCalls \cup {[kind |-> "verify", arg |-> lsToken]}
       ELSE UNCHANGED <<token, user, authCalls>>
    /\ route' = Resolve(route, user', FALSE)
    /\ appCrashed' = HooksOrderBroken(route, user')
    /\ formLoading' = FormLoadingAt(route')
    /\ UNCHANGED <<lsToken, lsUser, requested, navTimer>>
    /\ lastSent' = IF FetchingView(route, user, isLoading) # "none"
                   THEN [path |-> route, bearer |-> GetAuthHeader(token),
                         session |-> lsToken]
                   ELSE SentOnMount
    /\ UNCHANGED otherThanSession

\* AuthContext.jsx 35-40: /auth/me answered ok.
VerifyOk(c) ==
    /\ ~ appCrashed
    /\ c \in authCalls /\ c.kind = "verify"
    /\ authCalls' = authCalls \ {c}
    /\ user' = AccountOf(c.arg)
    /\ lsUser' = AccountOf(c.arg)
    /\ route' = Resolve(route, user', isLoading)
    /\ appCrashed' = HooksOrderBroken(route, user')
    /\ formLoading' = FormLoadingAt(route')
    /\ UNCHANGED <<lsToken, token, isLoading, requested, navTimer>>
    /\ lastSent' = SentOnMount
    /\ UNCHANGED otherThanSession

\* AuthContext.jsx 124-129: logout()
ClearSession ==
    /\ lsToken' = "none"
    /\ lsUser' = "none"
    /\ token' = "none"
    /\ user' = "none"

\* AuthContext.jsx 35-37, 41-43: /auth/me failed; the catch calls logout().
VerifyFails(c) ==
    /\ ~ appCrashed
    /\ c \in authCalls /\ c.kind = "verify"
    /\ authCalls' = authCalls \ {c}
    /\ ClearSession
    /\ route' = Resolve(route, "none", isLoading)
    /\ appCrashed' = HooksOrderBroken(route, "none")
    /\ formLoading' = FormLoadingAt(route')
    /\ UNCHANGED <<isLoading, requested, navTimer>>
    /\ lastSent' = SentOnMount
    /\ UNCHANGED otherThanSession

\* LandingPage.jsx 306-319 (login) and part_002 54-67 (signup): a valid form is
\* submitted as the account of persona p; the page's controls are disabled.
SubmitForm(p) ==
    /\ ~ appCrashed
    /\ route \in AuthPages /\ ~ isLoading
    /\ ~ formLoading
    /\ LET c == [kind |-> IF route = "/login" THEN "login" ELSE "signup", arg |-> p]
       IN /\ c \notin authCalls
          /\ authCalls' = authCalls \cup {c}
    /\ formLoading' = TRUE
    /\ UNCHANGED <<lsToken, lsUser, token, user, isLoading, route, requested, navTimer>>
    /\ UNCHANGED <<lastSent, appCrashed>>
    /\ UNCHANGED otherThanSession

\* part_004 11-13, 34-36: the Google button, rendered on both pages whatever the
\* form's loading flag, succeeded at Google; googleAuth() is called.
GoogleSignIn(p) ==
    /\ ~ appCrashed
    /\ route \in AuthPages /\ ~ isLoading
    /\ [kind |-> "google", arg |-> p] \notin authCalls
    /\ authCalls' = authCalls \cup {[kind |-> "google", arg |-> p]}
    /\ UNCHANGED <<lsToken, lsUser, token, user, isLoading, route, requested,
                   formLoading, navTimer>>
    /\ UNCHANGED <<lastSent, appCrashed>>
    /\ UNCHANGED otherThanSession

\* AuthContext.jsx 61-66, 87-92, 113-118: the session of the answered account is
\* stored; then LandingPage.jsx 321-323, part_002 69-71, part_004 15-17: the
\* caller schedules navigate("/app").
AuthOk(c) ==
    /\ ~ appCrashed
    /\ c \in authCalls /\ c.kind \in {"login", "signup", "google"}
    /\ authCalls' = authCalls \ {c}
    /\ token' = TokenOf(c.arg)
    /\ user' = c.arg
    /\ lsToken' = TokenOf(c.arg)
    /\ lsUser' = c.arg
    /\ route' = Resolve(route, user', isLoading)
    /\ appCrashed' = HooksOrderBroken(route, user')
    /\ formLoading' = FormLoadingAt(route')
    /\ navTimer' = TRUE
    /\ UNCHANGED <<isLoading, requested>>
    /\ lastSent' = SentOnMount
    /\ UNCHANGED otherThanSession

\* AuthContext.jsx 56-59, 82-85, 108-111: the request failed; LandingPage.jsx
\* 324-327 and part_002 72-75 show the error and enable the form again
\* (part_004 21-24 alerts).
AuthFails(c) ==
    /\ ~ appCrashed
    /\ c \in authCalls /\ c.kind \in {"login", "signup", "google"}
    /\ authCalls' = authCalls \ {c}
    /\ formLoading' = IF c.kind = "google" THEN formLoading ELSE FALSE
    /\ UNCHANGED <<lsToken, lsUser, token, user, isLoading, route, requested, navTimer>>
    /\ UNCHANGED <<lastSent, appCrashed>>
    /\ UNCHANGED otherThanSession

\* LandingPage.jsx 321-323: the scheduled navigate("/app", { replace: true }).
TimerNavigate ==
    /\ ~ appCrashed
    /\ navTimer
    /\ navTimer' = FALSE
    /\ route' = Resolve("/app/tasks", user, isLoading)
    /\ appCrashed' = HooksOrderBroken("/app/tasks", user)
    /\ formLoading' = FormLoadingAt(route')
    /\ UNCHANGED <<lsToken, lsUser, token, user, isLoading, requested, authCalls>>
    /\ lastSent' = SentOnMount
    /\ UNCHANGED otherThanSession

\* App (part_000 659-675): the user follows a link or enters a location.
GoTo(r) ==
    /\ ~ appCrashed
    /\ ~ isLoading
    /\ r # route
    /\ requested' = r
    /\ route' = Resolve(r, user, isLoading)
    /\ appCrashed' = HooksOrderBroken(r, user)
    /\ formLoading' = FormLoadingAt(route')
    /\ UNCHANGED <<lsToken, lsUser, token, user, isLoading, authCalls, navTimer>>
    /\ lastSent' = SentOnMount
    /\ UNCHANGED otherThanSession

\* Navbar handleLogout (MeetingDetail.jsx 387-390): logout(), then navigate("/").
NavbarLogout ==
    /\ ~ appCrashed
    /\ ~ isLoading /\ user # "none"
    /\ ClearSession
    /\ route' = "/"
    /\ appCrashed' = FALSE
    /\ formLoading' = FormLoadingAt(route')
    /\ UNCHANGED <<isLoading, requested, authCalls, navTimer>>
    /\ lastSent' = SentOnMount
    /\ UNCHANGED otherThanSession

\* DashboardNav.jsx 50: logout(); ProtectedRoute then redirects to /login.
DashboardLogout ==
    /\ ~ appCrashed
    /\ DashboardShown
    /\ ClearSession
    /\ route' = Resolve(route, "none", isLoading)
    /\ appCrashed' = HooksOrderBroken(route, "none")
    /\ formLoading' = FormLoadingAt(route')
    /\ UNCHANGED <<isLoading, requested, authCalls, navTimer>>
    /\ lastSent' = SentOnMount
    /\ UNCHANGED otherThanSession

NextSession ==
    \/ AuthMountEffect
    \/ \E c \in authCalls : VerifyOk(c)
    \/ \E c \in authCalls : VerifyFails(c)
    \/ \E p \in Personas : SubmitForm(p)
    \/ \E p \in Personas : GoogleSignIn(p)
    \/ \E c \in authCalls : AuthOk(c)
    \/ \E c \in authCalls : AuthFails(c)
    \/ TimerNavigate
    \/ \E r \in Routes : GoTo(r)
    \/ NavbarLogout
    \/ DashboardLogout

\* The start with only this part of the application in use.
SessionOnly == InitSession /\ IdleTasks /\ IdleMeeting /\ IdleAdapters /\ IdleTexts /\ IdleDocuments /\ IdleDetail /\ IdleQueries /\ IdleForms

SpecSession ==
    /\ SessionOnly
    /\ [][NextSession]_vars

\* ------------------------------------------------------ session claims
\* The persona of the session the browser holds: the user in memory, or the
\* stored user while the mount effect has not yet restored it.
SessionPersona ==
    IF user # "none" THEN user
    ELSE IF isLoading THEN lsUser
    ELSE "none"

\* C2: while the session is an employee's, no admin-only interface is rendered:
\* neither the AdminPerspective page, nor the transcript upload control, nor the
\* board selection in Settings, the startup interval included.
C2_EmployeeSeesNoAdminUi ==
    SessionPersona = "employee" =>
        /\ ~ AdminPerspectiveShown
        /\ ~ UploadControlShown
        /\ ~ BoardSelectionShown

\* C3: an admin who asks for /products/AdminPerspective is shown that page; an
\* employee who asks for it is redirected: the step ends at
\* /products/Trans2Actions with the application still on screen, and no step
\* leaves an employee on the admin location.
C3_AdminRouteByPersona ==
    /\ [](user = "employee" => route # AdminRoute)
    /\ [](user = "admin" /\ route = AdminRoute => AdminPerspectiveShown)
    /\ [][requested' = AdminRoute /\ requested # AdminRoute =>
            /\ user' = "employee" => route' = DefaultProductRoute /\ ~ appCrashed'
            /\ user' = "admin" => route' = AdminRoute /\ AdminPerspectiveShown']_vars

\* C4: at most one flow that writes the stored session is outstanding.
C4_OneAuthFlowOutstanding == Cardinality(authCalls) <= 1

\* ============================================================== adapters
\* The hours of a day at which a due value or the clock is sampled.
SampleHours == {0, 23}

\* The due values a card may carry: absent (null), the empty string, a string
\* Date cannot parse, or an ISO-8601 UTC timestamp of day d, hour h.
DueValues ==
    {[kind |-> "null"], [kind |-> "empty"], [kind |-> "malformed"]}
        \cup {[kind |-> "iso", day |-> d, hour |-> h] : d \in 1..MaxDay, h \in SampleHours}

\* JavaScript truthiness of card.due (TasksView.jsx 112).
DueTruthy(due) == due.kind \in {"malformed", "iso"}

\* new Date(string): the time value in hours since the epoch, or NaN.
DateParse(due) ==
    IF due.kind = "iso" THEN [nan |-> FALSE, t |-> due.day * 24 + due.hour]
    ELSE [nan |-> TRUE, t |-> 0]

\* Date.prototype.toISOString().split('T')[0]: the UTC day of a time value;
\* a RangeError for an invalid Date.
ToIsoDay(d) ==
    IF d.nan THEN [threw |-> TRUE, day |-> 0]
    ELSE [threw |-> FALSE, day |-> d.t \div 24]

\* Mutant: the due value is parsed without the test for its presence, so that an
\* absent one is the epoch (new Date(null)).
DueDateUnchecked(card, now) ==
    LET today == ToIsoDay([nan |-> FALSE, t |-> now]).day
        r == ToIsoDay(IF card.due.kind = "null" THEN [nan |-> FALSE, t |-> 0]
                      ELSE DateParse(card.due))
    IN IF r.threw THEN today ELSE r.day

\* TasksView.jsx 110-119: the dueDate of one card, the clock reading now.
DueDate(card, now) ==
    LET today == ToIsoDay([nan |-> FALSE, t |-> now]).day
    IN IF DueTruthy(card.due)
       THEN LET r == ToIsoDay(DateParse(card.due))
            IN IF r.threw THEN today ELSE r.day
       ELSE today

\* TasksView.jsx 93-141: data.cards.map(...), as to id and dueDate.
CardsToDueDates(cards, now) ==
    [k \in 1..Len(cards) |-> [id |-> cards[k].id, dueDate |-> DueDate(cards[k], now)]]

\* The card responses under study: up to MaxDueCards cards with ids in order.
DueResponses ==
    UNION {[1..n -> DueValues] : n \in 1..MaxDueCards}

\* A cards response and the clock reading at which it is transformed.
CardInputs ==
    {[kind |-> "cards",
      cards |-> [k \in 1..Len(dues) |-> [id |-> k, due |-> dues[k]]],
      now |-> d * 24 + h] :
        dues \in DueResponses, d \in 1..MaxDay + 1, h \in SampleHours}

\* A name is a string of letters, each in upper or lower case.
Letters == {"s", "a"}
Chars == [c : Letters, up : BOOLEAN]
NameStrings == UNION {[1..n -> Chars] : n \in 1..MaxNameLen}

\* String.prototype.toLowerCase()
ToLowerCase(str) == [k \in 1..Len(str) |-> [str[k] EXCEPT !.up = FALSE]]

RECURSIVE DedupById(_, _, _)
\* The entries of ps from k on whose id is not among seen, in order.
DedupById(ps, k, seen) ==
    IF k > Len(ps) THEN <<>>
    ELSE IF ps[k].id \in seen THEN DedupById(ps, k + 1, seen)
         ELSE <<ps[k]>> \o DedupById(ps, k + 1, seen \cup {ps[k].id})

\* Mutant: participants are collected in a map keyed by id, one entry per key.
ParticipantsKeyed(names) ==
    DedupById([k \in 1..Len(names) |-> [id |-> ToLowerCase(names[k]), name |-> names[k]]],
              1, {})

\* MeetingDetail.jsx 43 and DashboardNav.jsx 97:
\* participants.map(name => ({ id: name.toLowerCase(), name }))
Participants(names) ==
    [k \in 1..Len(names) |-> [id |-> ToLowerCase(names[k]), name |-> names[k]]]

\* A meeting response, as to its participants.
MeetingInputs ==
    {[kind |-> "meeting", participants |-> ps] :
        ps \in UNION {[1..n -> NameStrings] : n \in 0..MaxParticipants}}

\* The call sites that report a response that is not ok.
ErrorSites == {"taskFetch", "documentUpload", "documentDelete", "documentQuery",
               "conversion", "login", "signup", "settingsSave"}

\* The body of such a response: whether it parses as JSON and, if so, whether it
\* has a detail field.
ErrorBodies == {[parses |-> TRUE, detail |-> TRUE], [parses |-> TRUE, detail |-> FALSE],
                [parses |-> FALSE, detail |-> FALSE]}

\* TasksView.jsx 60-72: JSON.parse in a try block; the status line on failure.
TaskFetchErrorText(body) ==
    IF ~ body.parses THEN "statusText"
    ELSE IF body.detail THEN "detail" ELSE "default"

\* MeetingDetail.jsx 107-110: response.json().catch(() => ({ detail: statusText }))
ConversionErrorText(body) ==
    IF ~ body.parses THEN "statusText"
    ELSE IF body.detail THEN "detail" ELSE "statusText"

\* ProductsPage.jsx 146-149, 197-199, 240-243 and AuthContext.jsx 56-59, 82-85:
\* await response.json() without a guard; its SyntaxError reaches the catch of
\* the caller, which shows that error's message.
UnguardedErrorText(body) ==
    IF ~ body.parses THEN "syntaxError"
    ELSE IF body.detail THEN "detail" ELSE "default"

\* Settings (part_008 203-208): the same, with a catch that shows a fixed text.
SettingsErrorText(body) ==
    IF ~ body.parses THEN "fixedText"
    ELSE IF body.detail THEN "detail" ELSE "default"

\* The text a call site reports for a response that is not ok.
ErrorText(site, body) ==
    IF site = "taskFetch" THEN TaskFetchErrorText(body)
    ELSE IF site = "conversion" THEN ConversionErrorText(body)
    ELSE IF site = "settingsSave" THEN SettingsErrorText(body)
    ELSE UnguardedErrorText(body)

ErrorInputs == {[kind |-> "error", site |-> st, body |-> b] : st \in ErrorSites, b \in ErrorBodies}

\* The tasks of a loaded list, as to the fields a card shows: task k has id k
\* (card ids are unique), a title, the day it is due, the closed flag of its
\* card and its status.
TaskTitles == {"a", "b"}
LoadedTasks ==
    UNION {
        {[k \in 1..n |-> [id |-> k, title |-> ti[k], dueDate |-> du[k],
                          closed |-> cl[k], status |-> st[k]]] :
            ti \in [1..n -> TaskTitles], du \in [1..n -> 1..MaxDay],
            cl \in [1..n -> BOOLEAN], st \in [1..n -> {"open", "done"}]}
        : n \in 0..MaxCards }

\* A task list and the id toggleTaskStatus is called with: one of the list, or
\* one that is not in it.
ToggleInputs ==
    {[kind |-> "toggle", tasks |-> ts, id |-> i] :
        ts \in LoadedTasks, i \in 1..MaxCards + 1}

InitAdapters ==
    /\ adOp = "none"
    /\ \/ adIn \in CardInputs
       \/ adIn \in MeetingInputs
       \/ adIn \in ErrorInputs
       \/ adIn \in ToggleInputs
    /\ adOut = <<>>

\* TasksView.jsx 93-143: the cards of a response are turned into tasks.
TransformCards ==
    /\ adOp = "none"
    /\ adIn.kind = "cards"
    /\ adOp' = "cards"
    /\ adOut' = CardsToDueDates(adIn.cards, adIn.now)
    /\ UNCHANGED adIn
    /\ UNCHANGED otherThanAdapters

\* MeetingDetail.jsx 37-54 (and DashboardNav.jsx 92-110): the response is
\* transformed; the participants section (MeetingDetail.jsx 205-210) renders one
\* item per entry.
TransformMeeting ==
    /\ adOp = "none"
    /\ adIn.kind = "meeting"
    /\ adOp' = "meeting"
    /\ adOut' = Participants(adIn.participants)
    /\ UNCHANGED adIn
    /\ UNCHANGED otherThanAdapters

\* A response that is not ok is reported by its call site.
ReportError ==
    /\ adOp = "none"
    /\ adIn.kind = "error"
    /\ adOp' = "error"
    /\ adOut' = <<ErrorText(adIn.site, adIn.body)>>
    /\ UNCHANGED adIn
    /\ UNCHANGED otherThanAdapters

\* TasksView.jsx 158-171: toggleTaskStatus(id) on a task list.
ApplyToggle ==
    /\ adOp = "none"
    /\ adIn.kind = "toggle"
    /\ adOp' = "toggle"
    /\ adOut' = ToggleTaskStatus(adIn.tasks, adIn.id)
    /\ UNCHANGED adIn
    /\ UNCHANGED otherThanAdapters

NextAdapters ==
    \/ TransformCards
    \/ TransformMeeting
    \/ ReportError
    \/ ApplyToggle

\* The start with only the adapters in use.
AdaptersOnly == InitAdapters /\ IdleTasks /\ IdleMeeting /\ IdleSession /\ IdleTexts /\ IdleDocuments /\ IdleDetail /\ IdleQueries /\ IdleForms

SpecAdapters ==
    /\ AdaptersOnly
    /\ [][NextAdapters]_vars

\* ------------------------------------------------------- adapter claims
\* C12: every card's task carries as dueDate the calendar day of the card's due
\* value when that is present and parseable, and the current day otherwise; a
\* malformed value on one card leaves the other cards' tasks as they should be.
C12_DueDateOrToday ==
    adOp = "cards" =>
        /\ Len(adOut) = Len(adIn.cards)
        /\ \A k \in 1..Len(adOut) :
              /\ adOut[k].id = adIn.cards[k].id
              /\ adOut[k].dueDate =
                    IF adIn.cards[k].due.kind = "iso" THEN adIn.cards[k].due.day
                    ELSE adIn.now \div 24

C12_Witness ==
    /\ adOp = "cards"
    /\ Len(adOut) = 2
    /\ adIn.cards[1].due.kind = "malformed"
    /\ adIn.cards[2].due.kind = "iso"
    /\ adIn.cards[2].due.hour = 23
    /\ adOut[2].dueDate # adOut[1].dueDate

\* Two names of the response differ only by case.
CaseCollision(names) ==
    \E a, b \in 1..Len(names) :
        names[a] # names[b] /\ ToLowerCase(names[a]) = ToLowerCase(names[b])

\* C13, as stated: names that differ only by case yield a single participant
\* entry keyed by the lower-cased name.
C13_CaseCollisionCollapses ==
    adOp = "meeting" =>
        \A a, b \in 1..Len(adIn.participants) :
            (/\ adIn.participants[a] # adIn.participants[b]
             /\ ToLowerCase(adIn.participants[a]) = ToLowerCase(adIn.participants[b]))
                => Cardinality({k \in 1..Len(adOut) :
                        adOut[k].id = ToLowerCase(adIn.participants[a])}) = 1

\* C13, amended: every name of the response yields its own participant entry, in
\* order, with the name as received and the lower-cased name as id; names that
\* differ only by case yield two entries with the same id.
C13_OneEntryPerName ==
    adOp = "meeting" =>
        /\ Len(adOut) = Len(adIn.participants)
        /\ \A k \in 1..Len(adOut) :
              /\ adOut[k].name = adIn.participants[k]
              /\ Len(adOut[k].id) = Len(adOut[k].name)
              /\ \A j \in 1..Len(adOut[k].id) :
                    /\ adOut[k].id[j].c = adOut[k].name[j].c
                    /\ ~ adOut[k].id[j].up

C13_Witness ==
    /\ adOp = "meeting"
    /\ CaseCollision(adIn.participants)
    /\ Len(adOut) = 2
    /\ adOut[1].id = adOut[2].id
    /\ adOut[1].name # adOut[2].name

\* ================================================ meeting detail: texts
\* MeetingDetail.jsx 21-22
SUMMARY_TRUNCATE_LENGTH == 500
TRANSCRIPT_TRUNCATE_LENGTH == 1000

Alphabet == <<"a", "b", "c">>
\* A text of n characters; texts of different seeds differ at every position.
Text(n, seed) == [k \in 1..n |-> Alphabet[((k + seed) % 3) + 1]]

\* The texts under study: empty, and of the lengths around a threshold.
TextsAround(limit) ==
    {Text(n, seed) : n \in {0} \cup ((limit - 1)..(limit + MaxOver)), seed \in 1..MaxSeed}

\* JavaScript truthiness of a string or null: neither null nor empty.
StringTruthy(str) == ~ str.null /\ str.chars # <<>>

Ellipsis == <<".", ".", ".">>
NotAvailable == <<"Transcript not available">>

\* Mutant: the cut leaves room for the ellipsis within the limit.
TruncatedWithin(text, limit) == SubSeq(text, 1, limit - 3) \o Ellipsis

\* MeetingDetail.jsx 187, 233: `${text.substring(0, LIMIT)}...`
Truncated(text, limit) == SubSeq(text, 1, limit) \o Ellipsis

\* MeetingDetail.jsx 231-233: what the transcript box shows.
RenderedTranscript ==
    IF transcriptExpanded \/ ~ StringTruthy(transcriptText)
          \/ Len(transcriptText.chars) <= TRANSCRIPT_TRUNCATE_LENGTH
    THEN (IF StringTruthy(transcriptText) THEN transcriptText.chars ELSE NotAvailable)
    ELSE Truncated(transcriptText.chars, TRANSCRIPT_TRUNCATE_LENGTH)

\* MeetingDetail.jsx 235: the transcript's Read more / Read less button is rendered.
TranscriptControlShown ==
    /\ StringTruthy(transcriptText)
    /\ Len(transcriptText.chars) > TRANSCRIPT_TRUNCATE_LENGTH

\* MeetingDetail.jsx 185-187: what the summary box shows.
RenderedSummary ==
    IF summaryExpanded \/ Len(minutesSummary) <= SUMMARY_TRUNCATE_LENGTH
    THEN minutesSummary
    ELSE Truncated(minutesSummary, SUMMARY_TRUNCATE_LENGTH)

\* MeetingDetail.jsx 189: the summary's button is rendered.
SummaryControlShown == Len(minutesSummary) > SUMMARY_TRUNCATE_LENGTH

\* MeetingDetail.jsx 14-18, 37-54: a meeting has been loaded and is on display.
InitTexts ==
    /\ transcriptText \in
          {[null |-> FALSE, chars |-> t] : t \in TextsAround(TRANSCRIPT_TRUNCATE_LENGTH)}
              \cup {[null |-> TRUE, chars |-> <<>>]}
    /\ minutesSummary \in TextsAround(SUMMARY_TRUNCATE_LENGTH)
    /\ transcriptExpanded = FALSE
    /\ summaryExpanded = FALSE

\* MeetingDetail.jsx 236-238: a click on the transcript's button.
ClickTranscriptControl ==
    /\ TranscriptControlShown
    /\ transcriptExpanded' = ~ transcriptExpanded
    /\ UNCHANGED <<transcriptText, minutesSummary, summaryExpanded>>
    /\ UNCHANGED otherThanTexts

\* MeetingDetail.jsx 190-193: a click on the summary's button.
ClickSummaryControl ==
    /\ SummaryControlShown
    /\ summaryExpanded' = ~ summaryExpanded
    /\ UNCHANGED <<transcriptText, minutesSummary, transcriptExpanded>>
    /\ UNCHANGED otherThanTexts

NextTexts ==
    \/ ClickTranscriptControl
    \/ ClickSummaryControl

\* The start with only the text sections of the meeting detail in use.
TextsOnly ==
    InitTexts /\ IdleTasks /\ IdleMeeting /\ IdleSession /\ IdleAdapters /\ IdleDocuments /\ IdleDetail /\ IdleQueries /\ IdleForms

SpecTexts ==
    /\ TextsOnly
    /\ [][NextTexts]_vars

\* -------------------------------------------------------- text claims
HasTranscript == ~ transcriptText.null
TranscriptLen == Len(transcriptText.chars)

\* The transcript box shows the first TRANSCRIPT_TRUNCATE_LENGTH characters, then
\* an ellipsis, and the button is there.
ShowsCut ==
    /\ Len(RenderedTranscript) = TRANSCRIPT_TRUNCATE_LENGTH + 3
    /\ \A k \in 1..TRANSCRIPT_TRUNCATE_LENGTH : RenderedTranscript[k] = transcriptText.chars[k]
    /\ \A k \in 1..3 : RenderedTranscript[TRANSCRIPT_TRUNCATE_LENGTH + k] = "."
    /\ TranscriptControlShown

\* C14, as stated: not expanded, a transcript shorter than the limit is rendered
\* in full without the button, a longer one as its first 1000 characters and an
\* ellipsis with the button; expanded, the full text is rendered.
C14_TranscriptCut ==
    /\ (HasTranscript /\ ~ transcriptExpanded /\ TranscriptLen < TRANSCRIPT_TRUNCATE_LENGTH)
          => RenderedTranscript = transcriptText.chars /\ ~ TranscriptControlShown
    /\ (HasTranscript /\ ~ transcriptExpanded /\ TranscriptLen > TRANSCRIPT_TRUNCATE_LENGTH)
          => ShowsCut
    /\ (HasTranscript /\ transcriptExpanded) => RenderedTranscript = transcriptText.chars

\* C14, amended: the same for a transcript that is not empty; an empty or absent
\* transcript is rendered as the notice that none is available, without the button.
C14_TranscriptCutNonEmpty ==
    /\ (~ transcriptExpanded /\ TranscriptLen > 0
            /\ TranscriptLen < TRANSCRIPT_TRUNCATE_LENGTH)
          => RenderedTranscript = transcriptText.chars /\ ~ TranscriptControlShown
    /\ (~ transcriptExpanded /\ TranscriptLen > TRANSCRIPT_TRUNCATE_LENGTH)
          => ShowsCut
    /\ (transcriptExpanded /\ TranscriptLen > 0) => RenderedTranscript = transcriptText.chars
    /\ TranscriptLen = 0 => RenderedTranscript = NotAvailable /\ ~ TranscriptControlShown

C14_Witness ==
    /\ ~ transcriptExpanded
    /\ summaryExpanded
    /\ TranscriptLen = TRANSCRIPT_TRUNCATE_LENGTH + 2
    /\ RenderedTranscript # transcriptText.chars

\* ======================================== products page: documents
DocIds == 1..MaxDocs

\* A file name is its parts between the dots; a part is a word in lower or
\* upper case.  The names under study have no dot or one.
Words == {"notes", "exe", "pdf"}
NameParts == [word : Words, up : BOOLEAN]
FileNames == {<<p>> : p \in NameParts} \cup {<<p, q>> : p, q \in NameParts}

\* ProductsPage.jsx 115: allowedExtensions, without the dots
AllowedExtensions == {"pdf", "txt", "docx", "doc"}

\* ProductsPage.jsx 116: file.name.split('.').pop().toLowerCase()
FileExt(name) == [name[Len(name)] EXCEPT !.up = FALSE]

\* ProductsPage.jsx 117: allowedExtensions.includes(fileExt)
FileAllowed(name) == ~ FileExt(name).up /\ FileExt(name).word \in AllowedExtensions

\* The list requests awaiting their response: those of the effect, and those
\* handleFileUpload and handleDeleteDocument await.
PendingLists ==
    loads + (IF upPc = "awaitReload" THEN 1 ELSE 0)
          + Cardinality({f \in deletes : f.pc = "awaitReload"})

\* The requests awaiting their response.
PendingRequests ==
    PendingLists + (IF upPc = "awaitUpload" THEN 1 ELSE 0)
                 + Cardinality({f \in deletes : f.pc = "awaitDelete"})

\* There is room for the message a further handler call will append.
RoomForMessage ==
    Len(msgs) + (IF upPc = "idle" THEN 0 ELSE 1) + Cardinality(deletes) < MaxMsgs

\* ProductsPage.jsx 71-76 addMessage(message), and the effect of 79-92 that the
\* new message list triggers: at Trans2Actions it calls loadDocuments().
AddMessage(kind) ==
    /\ msgs' = Append(msgs, kind)
    /\ loads' = loads + 1

\* ProductsPage.jsx 29-43, 79-92: the page is mounted at Trans2Actions; its
\* effect has called loadDocuments().
InitDocuments ==
    /\ documents = {}
    /\ srvDocs \in SUBSET DocIds
    /\ uploading = FALSE
    /\ msgs = <<>>
    /\ upPc = "idle"
    /\ deletes = {}
    /\ loads = 1
    /\ dpChosen = NoFile

\* ProductsPage.jsx 94-108: a loadDocuments() of the effect is answered;
\* the list is stored when the response is ok.
EffectLoadDone(ok) ==
    /\ loads > 0
    /\ loads' = loads - 1
    /\ documents' = IF ok THEN srvDocs ELSE documents
    /\ dpChosen' = NoFile
    /\ UNCHANGED <<srvDocs, uploading, msgs, upPc, deletes>>
    /\ UNCHANGED otherThanDocuments

\* ProductsPage.jsx 110-131: a file is chosen in the file input (enabled while
\* no upload is under way).
ChooseFile(name) ==
    /\ ~ uploading
    /\ RoomForMessage
    /\ dpChosen' = name
    /\ IF FileAllowed(name)
       THEN /\ uploading' = TRUE
            /\ upPc' = "awaitUpload"
            /\ UNCHANGED <<msgs, loads>>
       ELSE /\ AddMessage("unsupported")
            /\ UNCHANGED <<uploading, upPc>>
    /\ UNCHANGED <<documents, srvDocs, deletes>>
    /\ UNCHANGED otherThanDocuments

\* ProductsPage.jsx 141-154: the upload is answered ok; loadDocuments() is
\* called and awaited.
UploadOk(d) ==
    /\ upPc = "awaitUpload"
    /\ srvDocs' = srvDocs \cup {d}
    /\ upPc' = "awaitReload"
    /\ dpChosen' = NoFile
    /\ UNCHANGED <<documents, uploading, msgs, deletes, loads>>
    /\ UNCHANGED otherThanDocuments

\* ProductsPage.jsx 146-149, 168-177: the upload is answered not ok, or fetch
\* threw; the error is shown and the flag reset.
UploadFails ==
    /\ upPc = "awaitUpload"
    /\ upPc' = "idle"
    /\ AddMessage("error")
    /\ uploading' = FALSE
    /\ dpChosen' = NoFile
    /\ UNCHANGED <<documents, srvDocs, deletes>>
    /\ UNCHANGED otherThanDocuments

\* ProductsPage.jsx 153-167, 175-177: the awaited loadDocuments() returns, with
\* the list stored when its response was ok; the success message is shown.
UploadReloaded(ok) ==
    /\ upPc = "awaitReload"
    /\ upPc' = "idle"
    /\ documents' = IF ok THEN srvDocs ELSE documents
    /\ AddMessage("uploaded")
    /\ uploading' = FALSE
    /\ dpChosen' = NoFile
    /\ UNCHANGED <<srvDocs, deletes>>
    /\ UNCHANGED otherThanDocuments

\* ProductsPage.jsx 180-187, 437: a click on a listed document's delete button.
ClickDelete(d) ==
    /\ d \in documents
    /\ RoomForMessage
    /\ [doc |-> d, pc |-> "awaitDelete"] \notin deletes
    /\ deletes' = deletes \cup {[doc |-> d, pc |-> "awaitDelete"]}
    /\ dpChosen' = NoFile
    /\ UNCHANGED <<documents, srvDocs, uploading, msgs, upPc, loads>>
    /\ UNCHANGED otherThanDocuments

\* ProductsPage.jsx 189-190: the delete is answered ok; loadDocuments() is
\* called and awaited.
DeleteOk(f) ==
    /\ f \in deletes /\ f.pc = "awaitDelete"
    /\ [f EXCEPT !.pc = "awaitReload"] \notin deletes
    /\ srvDocs' = srvDocs \ {f.doc}
    /\ deletes' = (deletes \ {f}) \cup {[f EXCEPT !.pc = "awaitReload"]}
    /\ dpChosen' = NoFile
    /\ UNCHANGED <<documents, uploading, msgs, upPc, loads>>
    /\ UNCHANGED otherThanDocuments

\* ProductsPage.jsx 197-208: the delete is answered not ok, or fetch threw.
DeleteFails(f) ==
    /\ f \in deletes /\ f.pc = "awaitDelete"
    /\ deletes' = deletes \ {f}
    /\ AddMessage("error")
    /\ dpChosen' = NoFile
    /\ UNCHANGED <<documents, srvDocs, uploading, upPc>>
    /\ UNCHANGED otherThanDocuments

\* ProductsPage.jsx 190-196: the awaited loadDocuments() returns; the success
\* message is shown.
DeleteReloaded(f, ok) ==
    /\ f \in deletes /\ f.pc = "awaitReload"
    /\ deletes' = deletes \ {f}
    /\ documents' = IF ok THEN srvDocs ELSE documents
    /\ AddMessage("deleted")
    /\ dpChosen' = NoFile
    /\ UNCHANGED <<srvDocs, uploading, upPc>>
    /\ UNCHANGED otherThanDocuments

NextDocuments ==
    \/ \E ok \in BOOLEAN : EffectLoadDone(ok)
    \/ \E name \in FileNames : ChooseFile(name)
    \/ \E d \in DocIds : UploadOk(d)
    \/ UploadFails
    \/ \E ok \in BOOLEAN : UploadReloaded(ok)
    \/ \E d \in DocIds : ClickDelete(d)
    \/ \E f \in deletes : DeleteOk(f)
    \/ \E f \in deletes : DeleteFails(f)
    \/ \E f \in deletes, ok \in BOOLEAN : DeleteReloaded(f, ok)

\* The start with only the products page in use.
DocumentsOnly ==
    InitDocuments /\ IdleTasks /\ IdleMeeting /\ IdleSession /\ IdleAdapters /\ IdleTexts /\ IdleDetail /\ IdleQueries /\ IdleForms

SpecDocuments ==
    /\ DocumentsOnly
    /\ [][NextDocuments]_vars

\* ---------------------------------------------------- document claims
\* The name has an extension, and it is one of pdf, txt, docx, doc in any case.
CarriesAllowedExtension(name) ==
    /\ Len(name) >= 2
    /\ name[Len(name)].word \in AllowedExtensions

\* C15: when a file is chosen, the upload request is issued only for a name that
\* carries one of the extensions pdf, txt, docx, doc, in any case; for any other
\* name exactly one message naming the supported formats is appended, the
\* uploading flag stays unset and no request is issued.
C15_UploadOnlyAllowedTypes ==
    [][dpChosen' # NoFile =>
          IF CarriesAllowedExtension(dpChosen')
          THEN upPc' = "awaitUpload" /\ uploading' /\ msgs' = msgs
          ELSE /\ msgs' = Append(msgs, "unsupported")
               /\ ~ uploading'
               /\ upPc' = "idle"
               /\ PendingRequests' = PendingRequests]_vars

\* The kind of the message this step appends ("none" when it appends none).
Appended == IF Len(msgs') = Len(msgs) + 1 THEN msgs'[Len(msgs')] ELSE "none"

\* C16: when an upload or a delete is answered ok a list request is issued, after
\* that response and before the success message is appended; when it fails, no
\* list request is issued and the document list stays as it was.
C16_ReloadOnSuccessOnly ==
    [][/\ (upPc = "awaitUpload" /\ upPc' = "awaitReload")
            => PendingLists' = PendingLists + 1 /\ msgs' = msgs
       /\ \A f \in deletes :
            (f.pc = "awaitDelete" /\ f \notin deletes'
                    /\ [f EXCEPT !.pc = "awaitReload"] \in deletes')
                => PendingLists' = PendingLists + 1 /\ msgs' = msgs
       /\ Appended = "uploaded" => upPc = "awaitReload"
       /\ Appended = "deleted" => \E f \in deletes : f.pc = "awaitReload"
       /\ Appended = "error"
            => PendingLists' = PendingLists /\ documents' = documents]_vars

\* C19: a request issued while the session has a token carries that token as its
\* bearer credential, the requests views issue on mount at startup included.
C19_RequestsCarryToken ==
    lastSent.session # "none" => lastSent.bearer = lastSent.session

\* C20: at every call site the text reported for a response that is not ok is
\* the body's detail when the body parses (and has one), and the status text of
\* the response when the body does not parse.
C20_ErrorTextOrStatus ==
    adOp = "error" =>
        /\ (adIn.body.parses /\ adIn.body.detail) => adOut = <<"detail">>
        /\ ~ adIn.body.parses => adOut = <<"statusText">>

\* ===================================== meeting detail: loading by route id
\* The fields of a meeting payload that may be null or missing.
PayloadFields == {"summary", "participants", "action_items", "transcript_text"}

\* MeetingDetail.jsx 46-51: the action items of meeting m; the ids are the
\* indices, the same for every meeting.
ActionItemsOf(m) == <<[id |-> 0, of |-> m], [id |-> 1, of |-> m]>>

\* MeetingDetail.jsx 43, 46: data.participants.map and data.action_items.map
\* throw a TypeError on null or undefined.
TransformThrows(nulls) == "participants" \in nulls \/ "action_items" \in nulls

\* MeetingDetail.jsx 39-52: transformedMeeting; summary and transcript_text are
\* copied as they are.
TransformedMeeting(m, nulls) ==
    [id |-> m, nulls |-> nulls \cap {"summary", "transcript_text"}]

\* MeetingDetail.jsx 67, 78, 186: past the two early returns the summary section
\* reads meeting.minutesSummary.length, a TypeError on null or undefined (the
\* transcript section, 231-235, tests for it first).
RenderThrows(loading, meeting) ==
    ~ loading /\ meeting # NoMeeting /\ "summary" \in meeting.nulls

\* MeetingDetail.jsx 67-87, 164: what the view shows.
DetailView ==
    IF ldCrashed THEN "crashed"
    ELSE IF ldLoading THEN "loading"
    ELSE IF ldMeeting = NoMeeting THEN "notFound"
    ELSE "detail"

\* The calls without the k-th.
WithoutCall(calls, k) == SubSeq(calls, 1, k - 1) \o SubSeq(calls, k + 1, Len(calls))

\* MeetingDetail.jsx 14-26: mounted at a detail location; the effect has called
\* loadMeeting().
InitDetail ==
    /\ ldId \in MeetingIds
    /\ ldCalls = <<ldId>>
    /\ ldMeeting = NoMeeting
    /\ ldItems = <<>>
    /\ ldLoading = TRUE
    /\ ldCrashed = FALSE
    /\ ldAllOk = TRUE
    /\ payloads \in [MeetingIds -> SUBSET PayloadFields]

\* part_003 23 and MeetingDetail.jsx 24-30: the location changes to the detail
\* of another meeting (a history traversal); the element is the same, so the
\* instance and its state stay, and the effect calls loadMeeting() for the new id.
RouteIdChanges(b) ==
    /\ ~ ldCrashed
    /\ b # ldId
    /\ Len(ldCalls) < MaxLoads
    /\ ldId' = b
    /\ ldCalls' = Append(ldCalls, b)
    /\ ldLoading' = TRUE
    /\ UNCHANGED <<ldMeeting, ldItems, ldCrashed, ldAllOk, payloads>>
    /\ UNCHANGED otherThanDetail

\* MeetingDetail.jsx 36-54, 59-64: the k-th call is answered ok; the payload is
\* transformed and stored, or the TypeError of the transformation is caught;
\* then the view renders.
DetailArrives(k) ==
    /\ ~ ldCrashed
    /\ k \in 1..Len(ldCalls)
    /\ ldCalls' = WithoutCall(ldCalls, k)
    /\ IF TransformThrows(payloads[ldCalls[k]])
       THEN /\ ldMeeting' = NoMeeting
            /\ ldAllOk' = FALSE
            /\ UNCHANGED ldItems
       ELSE /\ ldMeeting' = TransformedMeeting(ldCalls[k], payloads[ldCalls[k]])
            /\ ldItems' = ActionItemsOf(ldCalls[k])
            /\ UNCHANGED ldAllOk
    /\ ldLoading' = FALSE
    /\ ldCrashed' = RenderThrows(ldLoading', ldMeeting')
    /\ UNCHANGED <<ldId, payloads>>
    /\ UNCHANGED otherThanDetail

\* MeetingDetail.jsx 55-58, 62-64: the k-th call is answered, not ok.
DetailNotOk(k) ==
    /\ ~ ldCrashed
    /\ k \in 1..Len(ldCalls)
    /\ ldCalls' = WithoutCall(ldCalls, k)
    /\ ldMeeting' = NoMeeting
    /\ ldLoading' = FALSE
    /\ ldAllOk' = FALSE
    /\ UNCHANGED <<ldId, ldItems, ldCrashed, payloads>>
    /\ UNCHANGED otherThanDetail

\* MeetingDetail.jsx 31, 37, 59-64: fetch() or json() of the k-th call threw.
DetailThrows(k) ==
    /\ ~ ldCrashed
    /\ k \in 1..Len(ldCalls)
    /\ ldCalls' = WithoutCall(ldCalls, k)
    /\ ldMeeting' = NoMeeting
    /\ ldLoading' = FALSE
    /\ ldAllOk' = FALSE
    /\ UNCHANGED <<ldId, ldItems, ldCrashed, payloads>>
    /\ UNCHANGED otherThanDetail

NextDetail ==
    \/ \E b \in MeetingIds : RouteIdChanges(b)
    \/ \E k \in 1..MaxLoads : DetailArrives(k)
    \/ \E k \in 1..MaxLoads : DetailNotOk(k)
    \/ \E k \in 1..MaxLoads : DetailThrows(k)

\* The start with only the loading of the meeting detail in use.
DetailOnly ==
    InitDetail /\ IdleTasks /\ IdleMeeting /\ IdleSession /\ IdleAdapters /\ IdleTexts /\ IdleDocuments /\ IdleQueries /\ IdleForms

SpecDetail ==
    /\ DetailOnly
    /\ [][NextDetail]_vars

\* ------------------------------------------------- detail loading claims
\* C21: whatever the backend answers (a response that is not ok, a network
\* failure, a payload with null or missing fields), the view never crashes, and
\* once no call is outstanding it shows the meeting or the not-found notice.
C21_NoErrorEscapes ==
    /\ ~ ldCrashed
    /\ (ldId # "none" /\ ldCalls = <<>>) => DetailView \in {"detail", "notFound"}

\* C28: when the route id changes while a load is outstanding and every response
\* arrives ok, then, once no call is outstanding, the meeting and the action
\* items on display are those of the current route id, in whichever order the
\* responses arrived.
C28_ShowsRouteMeeting ==
    (ldId # "none" /\ ldCalls = <<>> /\ ldAllOk /\ ~ ldCrashed)
        => /\ ldMeeting.id = ldId
           /\ ldItems = ActionItemsOf(ldId)

\* ------------------------------------------------ session claims, continued
\* C22: once session loading has finished, the location is a dashboard route
\* only while a user is set, so that dashboard content is rendered only then.
\* A step that ends without a user leaves the dashboard for /login: at startup
\* without a stored session, when the token verification fails, on a logout
\* inside the dashboard (the navigation bar's logout navigates to "/"), and
\* when a dashboard route is asked for.
C22_DashboardNeedsUser ==
    /\ []((route \in DashboardRoutes /\ ~ isLoading) => user # "none")
    /\ [](DashboardShown => user # "none")
    /\ [][/\ (isLoading /\ ~ isLoading' /\ user' = "none" /\ route \in DashboardRoutes)
              => route' = "/login"
          /\ (DashboardShown /\ user' = "none" /\ authCalls' # authCalls)
              => route' = "/login"
          /\ (DashboardShown /\ user' = "none" /\ authCalls' = authCalls)
              => route' \in {"/login", "/"}
          /\ (requested' \in DashboardRoutes /\ requested' # requested /\ user' = "none")
              => route' = "/login"]_vars

\* A dashboard route was asked for by a signed-in user, the session has since
\* been removed, and the location is /login.
C22_Witness ==
    /\ requested \in DashboardRoutes
    /\ route = "/login"
    /\ user = "none"
    /\ lsToken = "none"
    /\ ~ isLoading
    /\ authCalls = {}
    /\ lastSent.path \in DashboardRoutes

\* ============================================== products page: queries
\* ProductsPage.jsx 229, 251, 290, 309: the products whose queries go to the
\* backend; handleSubmit has no branch for any other product name.
QueriedProducts == {"Trans2Actions", "User-Load", "AdminPerspective"}

\* ProductsPage.jsx 218-222, 245-249, 339-343: a message, by its type and the
\* query it belongs to ("error" is the ai message with the text of the error).
Message(type, q) == [type |-> type, q |-> q]

\* Mutant: addMessage writes to the product now on screen, not to the one of the
\* render that created the handler.
AddMessageToCurrent(list, product, message) ==
    [list EXCEPT ![qProduct] = Append(@, message)]

\* ProductsPage.jsx 71-76: addMessage(message) of the render at product.
AddMessageTo(list, product, message) ==
    [list EXCEPT ![product] = Append(@, message)]

\* ProductsPage.jsx 79-92: the effect, on [productName, currentMessages]: at
\* Trans2Actions it calls loadDocuments().  n is the number of runs it adds.
EffectLoads(product, ran) == IF ran /\ product = "Trans2Actions" THEN 1 ELSE 0

\* There is room for one more loadDocuments() call.
RoomForLoad == qDocCalls < MaxPending

\* ProductsPage.jsx 29-43, 79-92: the page is mounted at a product; the effect
\* has run.
InitQueries ==
    /\ qProduct \in ProductNames
    /\ qInst = 1
    /\ qMounts = 1
    /\ qMsgs = NoMessages
    /\ qLoading = FALSE
    /\ qFlight = {}
    /\ qNext = 1
    /\ qDocCalls = EffectLoads(qProduct, TRUE)
    /\ qSent = [q \in 1..MaxQueries |-> 0]
    /\ qLate = FALSE

\* part_000 666: a link to another product; the route element is the same, so
\* the page instance and its state stay, and the effect runs for the new name.
SwitchProduct(p) ==
    /\ qInst # 0
    /\ p # qProduct
    /\ RoomForLoad
    /\ qProduct' = p
    /\ qDocCalls' = qDocCalls + EffectLoads(p, TRUE)
    /\ UNCHANGED <<qInst, qMounts, qMsgs, qLoading, qFlight, qNext, qSent, qLate>>
    /\ UNCHANGED otherThanQueries

\* part_000 659-675: navigation to a location outside /products unmounts the
\* page; its state is dropped, its requests stay outstanding.
LeavePage ==
    /\ qInst # 0
    /\ qInst' = 0
    /\ qProduct' = "none"
    /\ qMsgs' = NoMessages
    /\ qLoading' = FALSE
    /\ UNCHANGED <<qMounts, qFlight, qNext, qDocCalls, qSent, qLate>>
    /\ UNCHANGED otherThanQueries

\* ProductsPage.jsx 29-43, 79-92: navigation to a product mounts a new instance.
EnterPage(p) ==
    /\ qInst = 0
    /\ qMounts < MaxMounts
    /\ RoomForLoad
    /\ qMounts' = qMounts + 1
    /\ qInst' = qMounts + 1
    /\ qProduct' = p
    /\ qDocCalls' = qDocCalls + EffectLoads(p, TRUE)
    /\ UNCHANGED <<qMsgs, qLoading, qFlight, qNext, qSent, qLate>>
    /\ UNCHANGED otherThanQueries

\* ProductsPage.jsx 211-226, 491-499: a non-empty query is submitted.  The user
\* message is added and loading set; for a queried product one request is
\* issued (227-336), for any other name the try block ends at once and the
\* finally resets loading (346-348).
SubmitQuery ==
    /\ qInst # 0
    /\ ~ qLoading
    /\ qNext <= MaxQueries
    /\ RoomForLoad
    /\ qMsgs' = AddMessageTo(qMsgs, qProduct, Message("user", qNext))
    /\ qNext' = qNext + 1
    /\ IF qProduct \in QueriedProducts
       THEN /\ qLoading' = TRUE
            /\ qFlight' = qFlight \cup {[inst |-> qInst, product |-> qProduct, q |-> qNext]}
            /\ qSent' = [qSent EXCEPT ![qNext] = @ + 1]
       ELSE UNCHANGED <<qLoading, qFlight, qSent>>
    /\ qDocCalls' = qDocCalls + EffectLoads(qProduct, TRUE)
    /\ UNCHANGED <<qProduct, qInst, qMounts, qLate>>
    /\ UNCHANGED otherThanQueries

\* Mutant: a failed query is sent again.
HandleAnswerRetrying(c, type) ==
    /\ c \in qFlight
    /\ IF type = "ai"
       THEN /\ qFlight' = qFlight \ {c}
            /\ UNCHANGED qSent
       ELSE /\ qFlight' = qFlight
            /\ qSent[c.q] < 2
            /\ qSent' = [qSent EXCEPT ![c.q] = @ + 1]
    /\ IF c.inst = qInst
       THEN /\ qMsgs' = AddMessageTo(qMsgs, c.product, Message(type, c.q))
            /\ qLoading' = (type # "ai")
            /\ qDocCalls' = qDocCalls + EffectLoads(qProduct, c.product = qProduct)
            /\ qLate' = (qLate \/ c.product # qProduct)
       ELSE UNCHANGED <<qMsgs, qLoading, qDocCalls, qLate>>

\* Mutant: the finally block is missing.
HandleAnswerKeepLoading(c, type) ==
    /\ c \in qFlight
    /\ qFlight' = qFlight \ {c}
    /\ IF c.inst = qInst
       THEN /\ qMsgs' = AddMessageTo(qMsgs, c.product, Message(type, c.q))
            /\ qLoading' = (type = "error")
            /\ qDocCalls' = qDocCalls + EffectLoads(qProduct, c.product = qProduct)
            /\ qLate' = (qLate \/ c.product # qProduct)
       ELSE UNCHANGED <<qMsgs, qLoading, qDocCalls, qLate>>
    /\ UNCHANGED qSent

\* ProductsPage.jsx 245-250, 337-348: the continuation of handleSubmit after its
\* request: a message of the given type is added by the addMessage of the
\* submitting render and loading is reset; the effect runs when the messages on
\* screen changed.  React ignores the updates of an unmounted instance.
HandleAnswer(c, type) ==
    /\ c \in qFlight
    /\ qFlight' = qFlight \ {c}
    /\ IF c.inst = qInst
       THEN /\ qMsgs' = AddMessageTo(qMsgs, c.product, Message(type, c.q))
            /\ qLoading' = FALSE
            /\ qDocCalls' = qDocCalls + EffectLoads(qProduct, c.product = qProduct)
            /\ qLate' = (qLate \/ c.product # qProduct)
       ELSE UNCHANGED <<qMsgs, qLoading, qDocCalls, qLate>>
    /\ UNCHANGED qSent

\* ProductsPage.jsx 245-250 (and 266-281, 300-307, 323-335): answered ok.
QueryOk(c) ==
    /\ HandleAnswer(c, "ai")
    /\ UNCHANGED <<qProduct, qInst, qMounts, qNext>>
    /\ UNCHANGED otherThanQueries

\* ProductsPage.jsx 240-243 (and 283-286, 308-311, 318-321), 337-345: answered
\* not ok; the Error thrown is caught and shown.
QueryNotOk(c) ==
    /\ HandleAnswer(c, "error")
    /\ UNCHANGED <<qProduct, qInst, qMounts, qNext>>
    /\ UNCHANGED otherThanQueries

\* ProductsPage.jsx 231, 245, 337-345: fetch() or json() threw.
QueryThrows(c) ==
    /\ HandleAnswer(c, "error")
    /\ UNCHANGED <<qProduct, qInst, qMounts, qNext>>
    /\ UNCHANGED otherThanQueries

\* ProductsPage.jsx 94-108: a loadDocuments() of the effect is answered.
DocumentsAnswered ==
    /\ qDocCalls > 0
    /\ qDocCalls' = qDocCalls - 1
    /\ UNCHANGED <<qProduct, qInst, qMounts, qMsgs, qLoading, qFlight, qNext, qSent, qLate>>
    /\ UNCHANGED otherThanQueries

NextQueries ==
    \/ \E p \in ProductNames : SwitchProduct(p)
    \/ LeavePage
    \/ \E p \in ProductNames : EnterPage(p)
    \/ SubmitQuery
    \/ \E c \in qFlight : QueryOk(c)
    \/ \E c \in qFlight : QueryNotOk(c)
    \/ \E c \in qFlight : QueryThrows(c)
    \/ DocumentsAnswered

\* The start with only the queries of the products page in use.
QueriesOnly ==
    InitQueries /\ IdleTasks /\ IdleMeeting /\ IdleSession /\ IdleAdapters /\ IdleTexts /\ IdleDocuments /\ IdleDetail /\ IdleForms

SpecQueries ==
    /\ QueriesOnly
    /\ [][NextQueries]_vars

\* ------------------------------------------------------- query claims
\* A call of the mounted page instance is answered in this step.
AnsweredLive(c) == c \in qFlight /\ c \notin qFlight' /\ c.inst = qInst

\* The messages of product p end with a message of query q.
EndsWith(list, p, q, types) ==
    /\ Len(list[p]) > 0
    /\ list[p][Len(list[p])].q = q
    /\ list[p][Len(list[p])].type \in types

C29_OneQueryInFlight ==
    /\ [](Cardinality(qFlight) <= 1)
    /\ [][\A c \in qFlight : AnsweredLive(c) => ~ qLoading']_vars
    /\ [][(qNext' # qNext /\ qProduct \notin QueriedProducts) => ~ qLoading']_vars

\* C29, amended: of the mounted page instance at most one query request is in
\* flight, loading is set exactly while it is, and so a submit is possible again
\* after every outcome; the requests of instances since unmounted may still be
\* outstanding.
C29_OneQueryPerInstance ==
    /\ [](Cardinality({c \in qFlight : c.inst = qInst}) <= 1)
    /\ [](qInst # 0 => (qLoading <=> \E c \in qFlight : c.inst = qInst))
    /\ [][\A c \in qFlight : AnsweredLive(c) => ~ qLoading']_vars
    /\ [][(qNext' # qNext /\ qProduct \notin QueriedProducts) => ~ qLoading']_vars

\* The second page instance has a query outstanding while that of the first,
\* unmounted one is outstanding too.
C29_Witness ==
    /\ qInst = 2
    /\ qLoading
    /\ Cardinality(qFlight) = 2
    /\ \E c \in qFlight : c.inst = 1

\* C30: a submit appends the user message to the list of the product on screen,
\* and the answer of a query submitted under product P appends its message (the
\* response or the error) to the list of P, whatever product is on screen then;
\* either step leaves the lists of all other products as they were.
C30_MessagesPerProduct ==
    [][/\ qNext' = qNext + 1
            => /\ qMsgs'[qProduct] = Append(qMsgs[qProduct], Message("user", qNext))
               /\ \A p \in ProductNames \ {qProduct} : qMsgs'[p] = qMsgs[p]
       /\ \A c \in qFlight : AnsweredLive(c)
            => /\ Len(qMsgs'[c.product]) = Len(qMsgs[c.product]) + 1
               /\ SubSeq(qMsgs'[c.product], 1, Len(qMsgs[c.product])) = qMsgs[c.product]
               /\ EndsWith(qMsgs', c.product, c.q, {"ai", "error"})
               /\ \A p \in ProductNames \ {c.product} : qMsgs'[p] = qMsgs[p]]_vars

\* The answer of a query arrived after a switch to another product: it is at the
\* end of its product's list, and the list on screen is empty.
C30_Witness ==
    /\ qLate
    /\ qInst = 1
    /\ qMsgs[qProduct] = <<>>
    /\ \E p \in ProductNames \ {qProduct} :
          /\ Len(qMsgs[p]) = 2
          /\ qMsgs[p][1] = Message("user", 1)
          /\ qMsgs[p][2] = Message("ai", 1)

\* ------------------------------------------------ tasks claims, continued
\* C24: a cards request is issued only in the step in which a settings request
\* is answered ok with a non-empty board id, one request per such answer; when
\* the settings request ends in any other way (not ok, no board id, a thrown
\* error), and in every other step, no cards request is issued.
C24_CardsAfterSettings ==
    /\ [](\A i \in Instances : tvFetch[i] = "awaitCards" => workspaceId # "")
    /\ [](requests.cards <= requests.settings)
    /\ [][requests'.cards # requests.cards
            => /\ requests'.cards = requests.cards + 1
               /\ workspaceId # ""
               /\ \E i \in Instances :
                     tvFetch[i] = "awaitSettings" /\ tvFetch'[i] = "awaitCards"]_vars
    /\ [][\A i \in Instances :
            (tvFetch[i] = "awaitSettings" /\ tvFetch'[i] \notin {"awaitSettings", "awaitCards"})
                => requests' = requests]_vars

\* One view's settings request was answered and its cards request is
\* outstanding; an earlier view's fetch ended without one.
C24_Witness ==
    /\ tvMounted = 2
    /\ tvFetch[2] = "awaitCards"
    /\ tvFetch[1] \in {"settingsNotOk", "caught"}
    /\ requests.settings = 2
    /\ requests.cards = 1

\* C26: a toggle leaves the list's length and order and every task's id, title,
\* due date and closed flag as they were, and the status of every task but the
\* one of the given id; the status of that one is flipped; with an id that is
\* not in the list the list is unchanged.
C26_ToggleChangesStatusOnly ==
    adOp = "toggle" =>
        /\ Len(adOut) = Len(adIn.tasks)
        /\ \A k \in 1..Len(adOut) :
              /\ adOut[k].id = adIn.tasks[k].id
              /\ adOut[k].title = adIn.tasks[k].title
              /\ adOut[k].dueDate = adIn.tasks[k].dueDate
              /\ adOut[k].closed = adIn.tasks[k].closed
              /\ adOut[k].status # adIn.tasks[k].status <=> adOut[k].id = adIn.id
        /\ (\A k \in 1..Len(adIn.tasks) : adIn.tasks[k].id # adIn.id) => adOut = adIn.tasks

\* The second of two tasks, of a closed card and done, was toggled to open.
C26_Witness ==
    /\ adOp = "toggle"
    /\ Len(adOut) = 2
    /\ adIn.id = 2
    /\ adIn.tasks[2].closed /\ adIn.tasks[2].status = "done"
    /\ adOut[2].closed /\ adOut[2].status = "open"
    /\ adOut[1] = adIn.tasks[1]


\* ================================================== login and signup forms
\* part_002 36: formData.password.length < 6
MinPasswordLength == 6

\* Field values the user may type, as sequences of characters.
Whitespace == {" "}
EmailValues ==
    { <<>>, <<" ">>, <<"a">>, <<"a", "@", "a">>, <<"a", "@", "a", ".", "a">>,
      <<"a", "@", ".", "a">>, <<"@", "a", ".", "a">>, <<"a", "@", "a", ".">>,
      <<"a", " ", "@", "a", ".", "a">>, <<"a", "@", "a", "@", "a", ".", "a">>,
      <<"a", ".", "a", "@", "a", ".", "a", ".", "a">> }
PasswordValues ==
    { [k \in 1..n |-> c] : n \in {0, MinPasswordLength - 1, MinPasswordLength},
                           c \in {"x", "y"} }
NameValues == { <<>>, <<" ">>, <<"n">> }

LoginFields == [email : EmailValues, password : PasswordValues]
SignupFields ==
    [name : NameValues, email : EmailValues, password : PasswordValues,
     confirmPassword : PasswordValues, persona : Personas]

\* part_002 10: the fields of a fresh signup form.
EmptySignup ==
    [name |-> <<>>, email |-> <<>>, password |-> <<>>, confirmPassword |-> <<>>,
     persona |-> "employee"]

FieldNames == {"name", "email", "password", "confirmPassword", "persona"}
FieldValuesOf(field) ==
    IF field = "name" THEN NameValues
    ELSE IF field = "email" THEN EmailValues
    ELSE IF field = "persona" THEN Personas
    ELSE PasswordValues

FieldsOf(page) == IF page = "/login" THEN LoginFields ELSE SignupFields
EmptyFields(page) == IF page = "/login" THEN EmptyLogin ELSE EmptySignup

\* String.prototype.trim() leaves nothing: !str.trim()
TrimEmpty(str) == \A k \in 1..Len(str) : str[k] \in Whitespace

\* /^[^\s@]+@[^\s@]+\.[^\s@]+$/.test(str): one "@" that is not the first
\* character, no white space, and a "." after it that is neither the character
\* next to the "@" nor the last one.
EmailRegexTest(str) ==
    \E i \in 2..Len(str) :
       /\ str[i] = "@"
       /\ \A k \in 1..Len(str) : k # i => str[k] \notin Whitespace \cup {"@"}
       /\ \E j \in (i + 2)..(Len(str) - 1) : str[j] = "."

\* LandingPage.jsx 298-301 and part_002 28-32: the email rule of both forms.
EmailErrors(email) ==
    IF TrimEmpty(email) THEN {<<"email", "required">>}
    ELSE IF ~ EmailRegexTest(email) THEN {<<"email", "invalid">>}
    ELSE {}

\* LandingPage.jsx 296-304: validateForm() of the login page.
ValidateLogin(f) ==
    EmailErrors(f.email)
       \cup (IF f.password = <<>> THEN {<<"password", "required">>} ELSE {})

\* Mutant: the signup form accepts a short password.
ValidateSignupAnyLength(f) ==
    (IF TrimEmpty(f.name) THEN {<<"name", "required">>} ELSE {})
       \cup EmailErrors(f.email)
       \cup (IF f.password = <<>> THEN {<<"password", "required">>} ELSE {})
       \cup (IF f.password # f.confirmPassword
             THEN {<<"confirmPassword", "mismatch">>} ELSE {})

\* part_002 23-47: validateForm() of the signup page; a persona is always
\* selected.
ValidateSignup(f) ==
    (IF TrimEmpty(f.name) THEN {<<"name", "required">>} ELSE {})
       \cup EmailErrors(f.email)
       \cup (IF f.password = <<>> THEN {<<"password", "required">>}
             ELSE IF Len(f.password) < MinPasswordLength
             THEN {<<"password", "short">>} ELSE {})
       \cup (IF f.password # f.confirmPassword
             THEN {<<"confirmPassword", "mismatch">>} ELSE {})

ValidateForm(page, f) == IF page = "/login" THEN ValidateLogin(f) ELSE ValidateSignup(f)

\* An auth page after AuthProvider's mount effect found no stored session.
InitForms ==
    /\ lsToken = "none" /\ lsUser = "none" /\ token = "none" /\ user = "none"
    /\ isLoading = FALSE
    /\ route \in AuthPages
    /\ requested = route
    /\ authCalls = {}
    /\ formLoading = FALSE
    /\ navTimer = FALSE
    /\ lastSent = NoRequest
    /\ appCrashed = FALSE
    /\ fFields = EmptyFields(route)
    /\ fErrors = {}
    /\ fLast = "none"

\* LandingPage.jsx 383, 397 and part_002 49-52: the user changes one field; the
\* inputs are disabled while the form is loading.
EditField(field, value) ==
    /\ route \in AuthPages /\ ~ formLoading
    /\ field \in DOMAIN fFields
    /\ value \in FieldValuesOf(field)
    /\ fFields[field] # value
    /\ fFields' = [fFields EXCEPT ![field] = value]
    /\ fLast' = "edit"
    /\ UNCHANGED fErrors
    /\ UNCHANGED svars
    /\ UNCHANGED otherThanForms

\* LandingPage.jsx 306-313 and part_002 54-61: handleSubmit() when validateForm()
\* reports errors: setErrors(newErrors); return.
SubmitInvalid ==
    /\ route \in AuthPages /\ ~ formLoading
    /\ ValidateForm(route, fFields) # {}
    /\ fErrors' = ValidateForm(route, fFields)
    /\ fLast' = "submit"
    /\ UNCHANGED fFields
    /\ UNCHANGED svars
    /\ UNCHANGED otherThanForms

\* LandingPage.jsx 306-319 and part_002 54-67: handleSubmit() when validateForm()
\* reports nothing: setLoading(true); setErrors({}); login() or signup() sends
\* the request.  The backend knows the account as persona p; a signup creates it
\* with the selected persona.
SubmitValid(p) ==
    /\ route \in AuthPages /\ ~ formLoading
    /\ ValidateForm(route, fFields) = {}
    /\ route = "/signup" => p = fFields.persona
    /\ authCalls' = authCalls \cup
          {[kind |-> IF route = "/login" THEN "login" ELSE "signup", arg |-> p]}
    /\ formLoading' = TRUE
    /\ fErrors' = {}
    /\ fLast' = "submit"
    /\ UNCHANGED fFields
    /\ UNCHANGED <<lsToken, lsUser, token, user, isLoading, route, requested,
                   navTimer, lastSent, appCrashed>>
    /\ UNCHANGED otherThanForms

\* AuthContext.jsx 61-66, 87-92: the session of the answered account is stored;
\* the auth page redirects (LandingPage.jsx 289-294, part_002 16-21) and is
\* unmounted.
FormAuthOk(c) ==
    /\ c \in authCalls
    /\ authCalls' = authCalls \ {c}
    /\ token' = TokenOf(c.arg)
    /\ user' = c.arg
    /\ lsToken' = TokenOf(c.arg)
    /\ lsUser' = c.arg
    /\ route' = Resolve(route, user', isLoading)
    /\ formLoading' = FALSE
    /\ navTimer' = TRUE
    /\ fFields' = EmptyLogin
    /\ fErrors' = {}
    /\ fLast' = "answer"
    /\ UNCHANGED <<isLoading, requested>>
    /\ UNCHANGED appCrashed
    /\ lastSent' = SentOnMount
    /\ UNCHANGED otherThanForms

\* AuthContext.jsx 56-59, 82-85, then LandingPage.jsx 324-327 and part_002
\* 72-75: setErrors({ form: ... }); setLoading(false).
FormAuthFails(c) ==
    /\ c \in authCalls
    /\ authCalls' = authCalls \ {c}
    /\ fErrors' = {<<"form", "failed">>}
    /\ formLoading' = FALSE
    /\ fLast' = "answer"
    /\ UNCHANGED fFields
    /\ UNCHANGED <<lsToken, lsUser, token, user, isLoading, route, requested,
                   navTimer, lastSent, appCrashed>>
    /\ UNCHANGED otherThanForms

NextForms ==
    \/ \E field \in FieldNames : \E value \in FieldValuesOf(field) : EditField(field, value)
    \/ SubmitInvalid
    \/ \E p \in Personas : SubmitValid(p)
    \/ \E c \in authCalls : FormAuthOk(c)
    \/ \E c \in authCalls : FormAuthFails(c)

\* The start with only this part of the application in use.
FormsOnly == InitForms /\ IdleTasks /\ IdleMeeting /\ IdleAdapters /\ IdleTexts /\ IdleDocuments /\ IdleDetail /\ IdleQueries

SpecForms ==
    /\ FormsOnly
    /\ [][NextForms]_vars

\* The fields are invalid in one of the ways the claim lists, whatever the
\* form: empty or malformed email, empty password, password shorter than six
\* characters, mismatched confirmation, empty name.
ListedInvalid(page, f) ==
    \/ EmailErrors(f.email) # {}
    \/ Len(f.password) < MinPasswordLength
    \/ page = "/signup" /\ f.password # f.confirmPassword
    \/ page = "/signup" /\ TrimEmpty(f.name)

\* The fields are invalid by the rules of their own form: the length,
\* confirmation and name rules are those of the signup form only.
InvalidOnItsForm(page, f) ==
    \/ EmailErrors(f.email) # {}
    \/ f.password = <<>>
    \/ page = "/signup" /\ Len(f.password) < MinPasswordLength
    \/ page = "/signup" /\ f.password # f.confirmPassword
    \/ page = "/signup" /\ TrimEmpty(f.name)

\* What a rejected submission does: field errors are set, no auth request is
\* issued, the session and the stored session stay as they were.
Rejected ==
    /\ fErrors' # {}
    /\ \A e \in fErrors' : e[1] \in {"name", "email", "password", "confirmPassword"}
    /\ authCalls' = authCalls
    /\ UNCHANGED <<token, user, lsToken, lsUser, formLoading>>

\* C25 as stated: submitting the login or the signup form with fields that are
\* invalid in any of the listed ways, a password shorter than six characters
\* included, sets field errors and issues no auth request, the session and the
\* storage unchanged.
C25_InvalidFormRejected ==
    [][(fLast' = "submit" /\ ListedInvalid(route, fFields)) => Rejected]_vars

\* C25, amended: submitting a form whose fields are invalid by the rules of that
\* form (login: empty or malformed email, empty password; signup: also a
\* password shorter than six characters, a mismatched confirmation, an empty
\* name) sets the errors of exactly the offending fields and issues no auth
\* request, the session and the storage unchanged.
C25_InvalidOnItsFormRejected ==
    [][(fLast' = "submit" /\ InvalidOnItsForm(route, fFields))
          => /\ Rejected
             /\ fErrors' = ValidateForm(route, fFields)]_vars

\* C25's case: a signup form with a short password has been rejected, nothing
\* sent and nobody signed in.
C25_Witness ==
    /\ route = "/signup" /\ fLast = "submit"
    /\ fFields.password # <<>> /\ Len(fFields.password) < MinPasswordLength
    /\ fFields.password = fFields.confirmPassword
    /\ EmailErrors(fFields.email) = {} /\ ~ TrimEmpty(fFields.name)
    /\ fErrors = {<<"password", "short">>}
    /\ authCalls = {} /\ user = "none" /\ lsToken = "none"


\* C27: the token and the user of the auth context are both set or both null,
\* and the storage keys auraai_token and auraai_user are both present or both
\* absent, after any interleaving of login, token verification and logout; a
\* verification answered after a logout restores no user.
C27_TokenAndUserTogether ==
    /\ (token = "none") <=> (user = "none")
    /\ (lsToken = "none") <=> (lsUser = "none")

====
